---- MODULE Spec2Model ----
(***************************************************************************)
(* Model of the table synchronisation service: the coordinator actor, one  *)
(* sync actor per configured table (internal/actor/sync_actor.go, second   *)
(* package clause, lines 250-543), the process entry point (cmd main) and  *)
(* the sync engine (internal/sync).                                        *)
(*                                                                         *)
(* Actors run on protoactor-go mailboxes: one consumer per actor, which    *)
(* takes system messages (Started, Stop) before user messages and invokes  *)
(* Receive synchronously, so a handler that blocks in performSync keeps    *)
(* every later message, system or user, waiting.                           *)
(***************************************************************************)
EXTENDS Integers, Sequences, FiniteSets, TLC

\* ------------------------------------------------------------------ bounds
\* API trigger requests served over one execution.
MaxTriggers == 1
\* Runs started over one execution, all workers together.
MaxRuns == 2
\* Rows of the source table.
MaxRows == 2
\* Consecutive calls of SyncTable for one table.
MaxEngineRuns == 2
\* Requests for all tables sent in a row to the API.
MaxBurst == 2

\* ------------------------------------------------------ configuration data
\* Table identifiers are sequences of characters, so that sanitizeActorName
\* can be computed on them.
T1 == <<"p", ".", "u">>
T2 == <<"o">>
T3 == <<"p", "-", "u">>
TargetNames == {T1, T2, T3}
\* A name no table is configured with.
Unknown == <<"x">>
\* A *bool field of TableConfig: unset, or set to true / false.
OptBool == {"nil", "true", "false"}

VARIABLES
    config,         \* Config.Tables: sequence of TableConfig
    defaults,       \* Config.Defaults
    mainState,      \* position of main(): "running", "waiting", "exited"
    apiCalls,       \* trigger requests served so far
    response,       \* HTTP status of the latest trigger request ("none" before)
    coordState,     \* coordinator: "spawned", "alive", "stopping", "stopped"
    coordStopReq,   \* a Stop system message waits in the coordinator's mailbox
    coordMailbox,   \* coordinator's user mailbox
    syncActors,     \* CoordinatorActor.syncActors: target -> worker (0 = absent)
    notFoundLog,    \* "Sync actor not found" warnings the coordinator has logged
    parent,         \* ctx.Parent() of each worker: "coordinator" or "none"
    wState,         \* worker: "none", "spawned", "alive", "stopping", "stopped"
    stopReq,        \* a Stop system message waits in the worker's mailbox
    mailbox,        \* worker's user mailbox
    handling,       \* message whose handler the worker's consumer is inside
    pc,             \* position inside performSync / SyncTable
    inFlight,       \* performSync calls entered and not yet returned
    cancelFunc,     \* SyncActor.cancelFunc # nil
    ctxState,       \* syncCtx: "none", "active", "expired", "cancelled"
    runErr,         \* err of the latest performSync: "none" (nil) or "error"
    nextSchedule,   \* SyncActor.nextSchedule: "nil", "armed", "fired", "stopped"
    orphanTimers,   \* armed timers the actor no longer references
    runsCompleted,  \* performSync calls that returned
    outcomesSent,   \* SyncResultMessages sent to the parent
    timerDelay,     \* Duration the latest time.AfterFunc of the worker was given
    \* --- one run of SyncEngine.SyncTable against the two databases
    job,            \* the run's TableConfig and Defaults.CreateTargetTable
    sourceRows,     \* rows of the source table
    targetExists,   \* the target relation exists
    target,         \* committed rows of the target table
    pre,            \* rows of the target table when the run began
    epc,            \* position inside SyncTable / syncToTarget
    columns,        \* columns returned by getSourceColumns
    data,           \* rows returned by fetchSourceData
    tx,             \* the load transaction: "none", "open", "committed", "rolledback"
    txRows,         \* rows of the target table as the open transaction sees them
    nextRow,        \* index in data of the next row to insert
    issued,         \* statements executed on the target handle, in order
    err,            \* error returned by SyncTable ("none" = nil)
    engineRun,      \* calls of SyncTable for the table so far
    queries,        \* texts of the generated statements executed, in order
    preExists,      \* the target relation existed when the run began
    targetColumns,  \* columns of the target relation
    \* --- one call of mapMSSQLToPostgreSQL
    col,            \* the ColumnInfo passed to the mapper
    pgType          \* the type the mapper returned (NoType before the call)

coordVars == <<coordState, coordStopReq, coordMailbox, syncActors, notFoundLog>>
workerVars == <<parent, wState, stopReq, mailbox, handling, pc, inFlight,
                cancelFunc, ctxState, runErr, nextSchedule, orphanTimers,
                runsCompleted, outcomesSent, timerDelay>>
actorVars == <<config, defaults, mainState, apiCalls, response, coordVars,
               workerVars>>
engineVars == <<job, sourceRows, targetExists, target, pre, epc, columns, data,
                tx, txRows, nextRow, issued, err, engineRun, queries, preExists,
                targetColumns>>
mapperVars == <<col, pgType>>
vars == <<actorVars, engineVars, mapperVars>>

Workers == DOMAIN config

\* A Go int, int64 or time.Duration of the 64-bit build: the eight bytes of
\* its two's complement, least significant first.  Bytes(n, k) are the low k
\* bytes of the integer n.
RECURSIVE Bytes(_, _)
Bytes(n, k) == IF k = 0 THEN <<>> ELSE <<n % 256>> \o Bytes(n \div 256, k - 1)

Int64(n) == Bytes(n, 8)

\* x < 0 and x <= 0 of a 64-bit signed integer.
IsNegative(x) == x[Len(x)] >= 128

NonPositive(x) == IsNegative(x) \/ \A k \in DOMAIN x : x[k] = 0

\* Column k of the schoolbook product of a and b: the sum of a[i] * b[j]
\* over i + j = k + 1, for i = 1 .. n.
RECURSIVE Column(_, _, _, _)
Column(a, b, k, n) ==
    IF n = 0 THEN 0 ELSE a[n] * b[k + 1 - n] + Column(a, b, k, n - 1)

\* Bytes k .. Len(a) of a * b when c is carried into byte k.
RECURSIVE MulFrom(_, _, _, _)
MulFrom(a, b, k, c) ==
    IF k > Len(a) THEN <<>>
    ELSE LET sum == c + Column(a, b, k, k)
         IN  <<sum % 256>> \o MulFrom(a, b, k + 1, sum \div 256)

\* a * b of two integers of the same width: the product's low bytes, what
\* overflows the width is dropped.
Mul(a, b) == MulFrom(a, b, 1, 0)

\* time.Second, a Duration in nanoseconds.
Second == Int64(1000000000)

\* refresh_rate values of more than 32 bits, in seconds: 9223372036, the
\* largest whose nanoseconds fit a Duration; 9223372037, one more; and
\* 18446744074, the least above 2^64 / 10^9.
LongestRate == <<4, 125, 193, 37, 2, 0, 0, 0>>

WrappingRate == <<5, 125, 193, 37, 2, 0, 0, 0>>

ShortWrappingRate == <<10, 250, 130, 75, 4, 0, 0, 0>>

\* A *int field of TableConfig: unset (<<>>), or set to r (<<r>>), zero and
\* negative included.
OptInt ==
    {<<>>} \cup {<<Int64(r)>> : r \in -1 .. 1}
           \cup {<<LongestRate>>, <<WrappingRate>>, <<ShortWrappingRate>>}

TableConfig ==
    [SourceTable : Seq({"s", "p", ".", "u", "o", "-"}), TargetTable : TargetNames,
     RefreshRate : OptInt, ProtoActorTrigger : OptBool, WebAPITrigger : OptBool]
DefaultConfig ==
    [RefreshRate : Seq(0 .. 255), ProtoActorTrigger : BOOLEAN, WebAPITrigger : BOOLEAN,
     CreateTargetTable : BOOLEAN]

\* A table entry that sets no refresh_rate, read from the source table named
\* after the target.
TC(tgt, auto, api) ==
    [SourceTable |-> <<"s", ".">> \o tgt, TargetTable |-> tgt,
     RefreshRate |-> <<>>, ProtoActorTrigger |-> auto, WebAPITrigger |-> api]
\* Defaults with the shipped refresh_rate of 360 seconds.
DC(auto, api, create) ==
    [RefreshRate |-> Int64(360), ProtoActorTrigger |-> auto, WebAPITrigger |-> api,
     CreateTargetTable |-> create]
\* The table entry tc with refresh_rate set to r.
WithRefreshRate(tc, r) == [tc EXCEPT !.RefreshRate = <<Int64(r)>>]

\* The configurations explored, each a Config.Tables with its Config.Defaults:
\* two tables, one scheduled by default and one manual only; the same target
\* configured twice; two targets whose actor names collide, neither scheduled
\* and only the second one open to the API.
Setups ==
    { [tables |-> <<TC(T1, "nil", "nil"),
                    WithRefreshRate(TC(T2, "false", "true"), 0)>>,
       defaults |-> DC(TRUE, TRUE, TRUE)],
      [tables |-> <<TC(T1, "nil", "nil"), TC(T1, "true", "nil")>>,
       defaults |-> DC(TRUE, TRUE, TRUE)],
      [tables |-> <<TC(T1, "nil", "nil"), TC(T3, "nil", "true")>>,
       defaults |-> DC(FALSE, FALSE, TRUE)] }

\* config.go: TableConfig.GetRefreshRate
GetRefreshRate(tc, d) ==
    IF tc.RefreshRate # <<>> THEN tc.RefreshRate[1] ELSE d.RefreshRate

\* config.go: TableConfig.GetProtoActorTrigger
GetProtoActorTrigger(tc, d) ==
    IF tc.ProtoActorTrigger # "nil"
    THEN tc.ProtoActorTrigger = "true"
    ELSE d.ProtoActorTrigger

\* A manual-trigger flag that an explicit false does not switch off: the
\* default applies unless the table sets true.
GetWebAPITriggerOr(tc, d) ==
    tc.WebAPITrigger = "true" \/ d.WebAPITrigger

\* config.go: TableConfig.GetWebAPITrigger
GetWebAPITrigger(tc, d) ==
    IF tc.WebAPITrigger # "nil"
    THEN tc.WebAPITrigger = "true"
    ELSE d.WebAPITrigger

\* Steps of SyncEngine.SyncTable, in order.
EnginePhases == {"introspect", "create", "fetch", "load"}

SyncTableMessage(tc) == [type |-> "SyncTable", table |-> tc.TargetTable]
ScheduleSyncMessage == [type |-> "Schedule"]
SyncResultMessage(name, ok) ==
    [type |-> "SyncResult", TableName |-> name, Success |-> ok]
TriggerSyncMessage(name, tc) ==
    [type |-> "TriggerSync", TableName |-> name, table |-> tc.TargetTable]
TriggerAllSyncMessage == [type |-> "TriggerAll"]

\* The actors of configuration s before the coordinator has handled Started.
ActorInitWith(s) ==
    /\ config = s.tables
    /\ defaults = s.defaults
    /\ mainState = "running"
    /\ apiCalls = 0
    /\ response = "none"
    /\ coordState = "spawned"
    /\ coordStopReq = FALSE
    /\ coordMailbox = <<>>
    /\ syncActors = [t \in TargetNames |-> 0]
    /\ notFoundLog = 0
    /\ parent = [i \in Workers |-> "none"]
    /\ wState = [i \in Workers |-> "none"]
    /\ stopReq = [i \in Workers |-> FALSE]
    /\ mailbox = [i \in Workers |-> <<>>]
    /\ handling = [i \in Workers |-> "none"]
    /\ pc = [i \in Workers |-> "idle"]
    /\ inFlight = [i \in Workers |-> 0]
    /\ cancelFunc = [i \in Workers |-> FALSE]
    /\ ctxState = [i \in Workers |-> "none"]
    /\ runErr = [i \in Workers |-> "none"]
    /\ nextSchedule = [i \in Workers |-> "nil"]
    /\ orphanTimers = [i \in Workers |-> 0]
    /\ runsCompleted = [i \in Workers |-> 0]
    /\ outcomesSent = [i \in Workers |-> 0]
    /\ timerDelay = [i \in Workers |-> Int64(0)]

\* main has not returned: once it has, the process and every goroutine of it
\* are gone.
ProcessRunning == mainState # "exited"

\* ------------------------------------------------------------------ status
\* A status that reports a last sync for a table whose worker completed a run.
GetStatusLive ==
    [k \in DOMAIN config |->
        [SourceTable |-> config[k].SourceTable,
         TargetTable |-> config[k].TargetTable,
         RefreshRate |-> GetRefreshRate(config[k], defaults),
         ProtoActorEnabled |-> GetProtoActorTrigger(config[k], defaults),
         WebAPIEnabled |-> GetWebAPITrigger(config[k], defaults),
         LastSync |-> IF runsCompleted[k] > 0 THEN "set" ELSE "zero"]]

\* APIHandler.GetStatus: one TableStatus per entry of Config.Tables, in
\* order; LastSync is left at the zero time.
GetStatus ==
    [k \in DOMAIN config |->
        [SourceTable |-> config[k].SourceTable,
         TargetTable |-> config[k].TargetTable,
         RefreshRate |-> GetRefreshRate(config[k], defaults),
         ProtoActorEnabled |-> GetProtoActorTrigger(config[k], defaults),
         WebAPIEnabled |-> GetWebAPITrigger(config[k], defaults),
         LastSync |-> "zero"]]

\* ------------------------------------------------------- message delivery
\* A worker's process: registered from spawn until it has stopped; a message
\* sent to a PID that is no longer registered goes to dead letters.
Registered(i) == wState[i] \in {"spawned", "alive", "stopping"}

\* Root.Send / ctx.Send to worker i: the mailbox after the send.
SendTo(mb, i, m) ==
    IF Registered(i) THEN [mb EXCEPT ![i] = Append(@, m)] ELSE mb

\* Send to the coordinator's PID.
SendToCoordinator(mb, m) ==
    IF coordState # "stopped" THEN Append(mb, m) ELSE mb

\* ------------------------------------------------------------ coordinator
\* sanitizeActorName: " ", ".", "/" and "\" each become "-".
sanitizeActorName(name) ==
    [j \in 1..Len(name) |->
        IF name[j] \in {" ", ".", "/", "\\"} THEN "-" ELSE name[j]]

\* Spawning on the root context (actorSystem.Root.Spawn): no parent.
SpawnParentRoot == "none"

\* ctx.SpawnNamed makes the new actor a child of the spawning context.
SpawnParent == "coordinator"

\* The loop of startSyncActors from entry k on: names holds the actor names
\* taken so far (SpawnNamed fails on a taken name and the entry is skipped).
RECURSIVE startSyncActorsFrom(_, _, _, _)
startSyncActorsFrom(k, names, reg, spawned) ==
    IF k > Len(config)
    THEN [reg |-> reg, spawned |-> spawned]
    ELSE LET tc == config[k]
             actorName == <<"sync-">> \o sanitizeActorName(tc.TargetTable)
         IN  IF actorName \in names
             THEN startSyncActorsFrom(k + 1, names, reg, spawned)
             ELSE startSyncActorsFrom(k + 1, names \cup {actorName},
                                      [reg EXCEPT ![tc.TargetTable] = k],
                                      spawned \cup {k})

startSyncActors == startSyncActorsFrom(1, {}, syncActors, {})

\* CoordinatorActor.Receive, *actor.Started
CoordStarted ==
    /\ ProcessRunning
    /\ coordState = "spawned"
    /\ LET r == startSyncActors IN
        /\ syncActors' = r.reg
        /\ wState' = [i \in Workers |-> IF i \in r.spawned THEN "spawned" ELSE wState[i]]
        /\ parent' = [i \in Workers |-> IF i \in r.spawned THEN SpawnParent ELSE parent[i]]
    /\ coordState' = "alive"
    /\ UNCHANGED <<config, defaults, mainState, apiCalls, response,
                   coordStopReq, coordMailbox, notFoundLog, stopReq, mailbox,
                   handling, pc, inFlight, cancelFunc, ctxState, runErr,
                   nextSchedule, orphanTimers, runsCompleted, outcomesSent,
                   timerDelay, engineVars, mapperVars>>

\* APIHandler.TriggerSync, table lookup: the first configured table whose
\* target equals the requested name (0 = not found).
FindTableConfig(name) ==
    IF \E k \in Workers : config[k].TargetTable = name
    THEN CHOOSE k \in Workers :
            /\ config[k].TargetTable = name
            /\ \A j \in Workers : config[j].TargetTable = name => k <= j
    ELSE 0

\* A handler that answers every request naming a table with 200.
TriggerSyncStatusAlwaysOK(k) == "StatusOK"

\* APIHandler.TriggerSync, the status answered to a request naming the table
\* found at entry k of the configuration (0 = not found).
TriggerSyncStatus(k) ==
    IF k = 0 THEN "StatusNotFound"
    ELSE IF ~GetWebAPITrigger(config[k], defaults) THEN "StatusForbidden"
    ELSE "StatusOK"

\* APIHandler.TriggerSync with {"table_name": name}: 404 for an unknown
\* table, 403 when the table's WebAPI trigger is off, else a
\* TriggerSyncMessage for the coordinator.
APITriggerSync(name) ==
    /\ mainState = "running"
    /\ apiCalls < MaxTriggers
    /\ apiCalls' = apiCalls + 1
    /\ LET k == FindTableConfig(name) IN
        /\ coordMailbox' =
            IF k # 0 /\ GetWebAPITrigger(config[k], defaults)
            THEN SendToCoordinator(coordMailbox, TriggerSyncMessage(name, config[k]))
            ELSE coordMailbox
        /\ response' = TriggerSyncStatus(k)
    /\ UNCHANGED <<config, defaults, mainState, coordState, coordStopReq,
                   syncActors, notFoundLog, parent, wState, stopReq, mailbox,
                   handling, pc, inFlight, cancelFunc, ctxState, runErr,
                   nextSchedule, orphanTimers, runsCompleted, outcomesSent,
                   timerDelay, engineVars, mapperVars>>

\* APIHandler.TriggerSync with {"sync_all": true}
APITriggerAllWithin(n) ==
    /\ mainState = "running"
    /\ apiCalls < n
    /\ apiCalls' = apiCalls + 1
    /\ coordMailbox' = SendToCoordinator(coordMailbox, TriggerAllSyncMessage)
    /\ response' = "StatusOK"
    /\ UNCHANGED <<config, defaults, mainState, coordState, coordStopReq,
                   syncActors, notFoundLog, parent, wState, stopReq, mailbox,
                   handling, pc, inFlight, cancelFunc, ctxState, runErr,
                   nextSchedule, orphanTimers, runsCompleted, outcomesSent,
                   timerDelay, engineVars, mapperVars>>

\* POST /api/sync with table_name "sync_all", within the requests explored.
APITriggerAll == APITriggerAllWithin(MaxTriggers)

\* A TriggerAllSyncMessage handler that leaves its loop after the first
\* worker it has sent to.
TriggerAllSendsFirst(names, mb) ==
    IF \E t \in names : syncActors[t] # 0 /\ FindTableConfig(t) # 0
    THEN LET tableName == CHOOSE t \in names :
                             syncActors[t] # 0 /\ FindTableConfig(t) # 0
         IN  SendTo(mb, syncActors[tableName],
                    SyncTableMessage(config[FindTableConfig(tableName)]))
    ELSE mb

\* The sends of the TriggerAllSyncMessage handler: one SyncTableMessage to
\* every registered worker for which a table entry with its key exists.
RECURSIVE TriggerAllSends(_, _)
TriggerAllSends(names, mb) ==
    IF names = {}
    THEN mb
    ELSE LET tableName == CHOOSE t \in names : TRUE
             k == FindTableConfig(tableName)
             next == IF syncActors[tableName] # 0 /\ k # 0
                     THEN SendTo(mb, syncActors[tableName], SyncTableMessage(config[k]))
                     ELSE mb
         IN  TriggerAllSends(names \ {tableName}, next)

\* A coordinator that answers a failed SyncResultMessage with a new
\* SyncTableMessage for the worker of that table.
CoordinatorSendsRetry(msg) ==
    IF msg.type = "SyncResult"
    THEN IF ~msg.Success /\ syncActors[msg.TableName] # 0
         THEN SendTo(mailbox, syncActors[msg.TableName],
                     [type |-> "SyncTable", table |-> msg.TableName])
         ELSE mailbox
    ELSE IF msg.type = "TriggerSync"
    THEN IF syncActors[msg.TableName] # 0
         THEN SendTo(mailbox, syncActors[msg.TableName],
                     [type |-> "SyncTable", table |-> msg.table])
         ELSE mailbox
    ELSE IF msg.type = "TriggerAll"
    THEN TriggerAllSends(TargetNames, mailbox)
    ELSE mailbox

\* The worker mailboxes after the coordinator's handler for msg.
CoordinatorSends(msg) ==
    IF msg.type = "TriggerSync"
    THEN IF syncActors[msg.TableName] # 0
         THEN SendTo(mailbox, syncActors[msg.TableName],
                     [type |-> "SyncTable", table |-> msg.table])
         ELSE mailbox
    ELSE IF msg.type = "TriggerAll"
    THEN TriggerAllSends(TargetNames, mailbox)
    ELSE mailbox

\* A TriggerSyncMessage handler without the else branch.
LogsNotFoundNever(msg) == FALSE

\* The TriggerSyncMessage handler logs "Sync actor not found" when the
\* registry has no entry for the name.
LogsNotFound(msg) == msg.type = "TriggerSync" /\ syncActors[msg.TableName] = 0

\* The coordinator's consumer is free to take a user message: it is running
\* and no system message waits (system messages are taken first).
CoordinatorReady == coordState \in {"alive", "stopping"} /\ ~coordStopReq

\* A coordinator that forgets the worker of a table whose run failed: the
\* SyncResultMessage handler deletes the registry entry.
CoordReceiveForgets ==
    /\ ProcessRunning
    /\ CoordinatorReady
    /\ coordMailbox # <<>>
    /\ coordMailbox' = Tail(coordMailbox)
    /\ mailbox' = CoordinatorSends(Head(coordMailbox))
    /\ notFoundLog' = IF LogsNotFound(Head(coordMailbox)) THEN notFoundLog + 1
                      ELSE notFoundLog
    /\ syncActors' = IF Head(coordMailbox).type = "SyncResult"
                        /\ ~Head(coordMailbox).Success
                     THEN [syncActors EXCEPT ![Head(coordMailbox).TableName] = 0]
                     ELSE syncActors
    /\ UNCHANGED <<config, defaults, mainState, apiCalls, response, coordState,
                   coordStopReq, parent, wState, stopReq, handling, pc,
                   inFlight, cancelFunc, ctxState, runErr, nextSchedule,
                   orphanTimers, runsCompleted, outcomesSent, timerDelay,
                   engineVars, mapperVars>>

\* CoordinatorActor.Receive for the user messages: SyncResultMessage (log),
\* TriggerSyncMessage, TriggerAllSyncMessage.
CoordReceive ==
    /\ ProcessRunning
    /\ CoordinatorReady
    /\ coordMailbox # <<>>
    /\ coordMailbox' = Tail(coordMailbox)
    /\ mailbox' = CoordinatorSends(Head(coordMailbox))
    /\ notFoundLog' = IF LogsNotFound(Head(coordMailbox)) THEN notFoundLog + 1
                      ELSE notFoundLog
    /\ UNCHANGED <<config, defaults, mainState, apiCalls, response, coordState,
                   coordStopReq, syncActors, parent, wState, stopReq, handling,
                   pc, inFlight, cancelFunc, ctxState, runErr, nextSchedule,
                   orphanTimers, runsCompleted, outcomesSent, timerDelay,
                   engineVars, mapperVars>>

\* ----------------------------------------------------------------- worker
\* A Started handler that sends the first ScheduleSyncMessage whatever the
\* table's trigger flag.
WorkerStartedAlways(i) ==
    /\ ProcessRunning
    /\ wState[i] = "spawned"
    /\ wState' = [wState EXCEPT ![i] = "alive"]
    /\ mailbox' = [mailbox EXCEPT ![i] = Append(@, ScheduleSyncMessage)]
    /\ UNCHANGED <<config, defaults, mainState, apiCalls, response, coordState,
                   coordStopReq, coordMailbox, syncActors, notFoundLog, parent,
                   stopReq, handling, pc, inFlight, cancelFunc, ctxState,
                   runErr, nextSchedule, orphanTimers, runsCompleted,
                   outcomesSent, timerDelay, engineVars, mapperVars>>

\* A Started handler that calls scheduleNextSync as well as sending the
\* first ScheduleSyncMessage.
WorkerStartedArms(i) ==
    /\ ProcessRunning
    /\ wState[i] = "spawned"
    /\ wState' = [wState EXCEPT ![i] = "alive"]
    /\ mailbox' = IF GetProtoActorTrigger(config[i], defaults)
                  THEN [mailbox EXCEPT ![i] = Append(@, ScheduleSyncMessage)]
                  ELSE mailbox
    /\ nextSchedule' = IF GetProtoActorTrigger(config[i], defaults)
                       THEN [nextSchedule EXCEPT ![i] = "armed"]
                       ELSE nextSchedule
    /\ UNCHANGED <<config, defaults, mainState, apiCalls, response, coordState,
                   coordStopReq, coordMailbox, syncActors, notFoundLog, parent,
                   stopReq, handling, pc, inFlight, cancelFunc, ctxState,
                   runErr, orphanTimers, runsCompleted, outcomesSent,
                   timerDelay, engineVars, mapperVars>>

\* SyncActor.Receive, *actor.Started: a worker with the auto trigger sends
\* itself the first ScheduleSyncMessage.
WorkerStarted(i) ==
    /\ ProcessRunning
    /\ wState[i] = "spawned"
    /\ wState' = [wState EXCEPT ![i] = "alive"]
    /\ mailbox' = IF GetProtoActorTrigger(config[i], defaults)
                  THEN [mailbox EXCEPT ![i] = Append(@, ScheduleSyncMessage)]
                  ELSE mailbox
    /\ UNCHANGED <<config, defaults, mainState, apiCalls, response, coordState,
                   coordStopReq, coordMailbox, syncActors, notFoundLog, parent,
                   stopReq, handling, pc, inFlight, cancelFunc, ctxState,
                   runErr, nextSchedule, orphanTimers, runsCompleted,
                   outcomesSent, timerDelay, engineVars, mapperVars>>

\* A dispatch that starts every handler on its own goroutine.
MailboxIdleConcurrent(i) == TRUE

\* One dispatcher for all actors: a mailbox is served only while no sync
\* actor is inside Receive.
MailboxIdleGlobal(i) == \A j \in Workers : handling[j] = "none"

\* The mailbox's single consumer invokes Receive synchronously: it takes the
\* next message only when the previous handler has returned.
MailboxIdle(i) == handling[i] = "none"

\* Runs started so far: those that returned and those in flight.
RECURSIVE SumOver(_, _)
SumOver(f, S) ==
    IF S = {} THEN 0
    ELSE LET x == CHOOSE y \in S : TRUE IN f[x] + SumOver(f, S \ {x})

RunsStarted == SumOver(runsCompleted, Workers) + SumOver(inFlight, Workers)

\* A mailbox that coalesces: taking a message also discards the queued
\* messages of the same type.
WorkerReceiveCoalesce(i) ==
    /\ ProcessRunning
    /\ RunsStarted < MaxRuns
    /\ wState[i] = "alive"
    /\ MailboxIdle(i)
    /\ ~stopReq[i]
    /\ mailbox[i] # <<>>
    /\ mailbox' = [mailbox EXCEPT ![i] =
                        SelectSeq(Tail(@), LAMBDA m : m.type # Head(mailbox[i]).type)]
    /\ handling' = [handling EXCEPT ![i] = Head(mailbox[i]).type]
    /\ inFlight' = [inFlight EXCEPT ![i] = @ + 1]
    /\ cancelFunc' = [cancelFunc EXCEPT ![i] = TRUE]
    /\ ctxState' = [ctxState EXCEPT ![i] = "active"]
    /\ runErr' = [runErr EXCEPT ![i] = "none"]
    /\ pc' = [pc EXCEPT ![i] = "introspect"]
    /\ UNCHANGED <<config, defaults, mainState, apiCalls, response, coordState,
                   coordStopReq, coordMailbox, syncActors, notFoundLog, parent,
                   wState, stopReq, nextSchedule, orphanTimers, runsCompleted,
                   outcomesSent, timerDelay, engineVars, mapperVars>>

\* A ScheduleSyncMessage handler that calls scheduleNextSync before
\* performSync: the timer is armed when the scheduled run starts.
WorkerReceiveArmsFirst(i) ==
    /\ ProcessRunning
    /\ RunsStarted < MaxRuns
    /\ wState[i] = "alive"
    /\ MailboxIdle(i)
    /\ ~stopReq[i]
    /\ mailbox[i] # <<>>
    /\ mailbox' = [mailbox EXCEPT ![i] = Tail(@)]
    /\ handling' = [handling EXCEPT ![i] = Head(mailbox[i]).type]
    /\ nextSchedule' = IF Head(mailbox[i]).type = "Schedule"
                          /\ GetProtoActorTrigger(config[i], defaults)
                       THEN [nextSchedule EXCEPT ![i] = "armed"]
                       ELSE nextSchedule
    /\ inFlight' = [inFlight EXCEPT ![i] = @ + 1]
    /\ cancelFunc' = [cancelFunc EXCEPT ![i] = TRUE]
    /\ ctxState' = [ctxState EXCEPT ![i] = "active"]
    /\ runErr' = [runErr EXCEPT ![i] = "none"]
    /\ pc' = [pc EXCEPT ![i] = "introspect"]
    /\ UNCHANGED <<config, defaults, mainState, apiCalls, response, coordState,
                   coordStopReq, coordMailbox, syncActors, notFoundLog, parent,
                   wState, stopReq, orphanTimers, runsCompleted, outcomesSent,
                   timerDelay, engineVars, mapperVars>>

\* SyncActor.Receive, *ScheduleSyncMessage and *SyncTableMessage, up to the
\* call of SyncTable inside performSync: the run's context is created and
\* its cancel function stored.
WorkerReceive(i) ==
    /\ ProcessRunning
    /\ RunsStarted < MaxRuns
    /\ wState[i] = "alive"
    /\ MailboxIdle(i)
    /\ ~stopReq[i]
    /\ mailbox[i] # <<>>
    /\ mailbox' = [mailbox EXCEPT ![i] = Tail(@)]
    /\ handling' = [handling EXCEPT ![i] = Head(mailbox[i]).type]
    /\ inFlight' = [inFlight EXCEPT ![i] = @ + 1]
    /\ cancelFunc' = [cancelFunc EXCEPT ![i] = TRUE]
    /\ ctxState' = [ctxState EXCEPT ![i] = "active"]
    /\ runErr' = [runErr EXCEPT ![i] = "none"]
    /\ pc' = [pc EXCEPT ![i] = "introspect"]
    /\ UNCHANGED <<config, defaults, mainState, apiCalls, response, coordState,
                   coordStopReq, coordMailbox, syncActors, notFoundLog, parent,
                   wState, stopReq, nextSchedule, orphanTimers, runsCompleted,
                   outcomesSent, timerDelay, engineVars, mapperVars>>

\* SyncTable: the step after p (createTargetTable only when the policy
\* enables it).
NextPhase(p) ==
    CASE p = "introspect" -> IF defaults.CreateTargetTable THEN "create" ELSE "fetch"
      [] p = "create" -> "fetch"
      [] p = "fetch" -> "load"
      [] p = "load" -> "report"

\* The outcomes a database call of the engine can have (TRUE = no error).
\* SyncTable receives ctx and passes it to none of its calls (Queryx,
\* QueryRow, Exec, Beginx, Preparex, Commit), so the outcome does not depend
\* on the state of the run's context.
StepOutcomes(i) == BOOLEAN

\* One blocking step of SyncEngine.SyncTable: it succeeds and the engine
\* moves on, or it fails and SyncTable returns the wrapped error.
EngineStep(i) ==
    /\ ProcessRunning
    /\ pc[i] \in EnginePhases
    /\ \E ok \in StepOutcomes(i) :
        /\ pc' = [pc EXCEPT ![i] = IF ok THEN NextPhase(@) ELSE "report"]
        /\ runErr' = [runErr EXCEPT ![i] = IF ok THEN @ ELSE "error"]
    /\ UNCHANGED <<config, defaults, mainState, apiCalls, response, coordState,
                   coordStopReq, coordMailbox, syncActors, notFoundLog, parent,
                   wState, stopReq, mailbox, handling, inFlight, cancelFunc,
                   ctxState, nextSchedule, orphanTimers, runsCompleted,
                   outcomesSent, timerDelay, engineVars, mapperVars>>

\* context.WithTimeout(..., 10*time.Minute): the deadline passes while
\* SyncTable is still running.
CtxExpire(i) ==
    /\ ProcessRunning
    /\ pc[i] \in EnginePhases
    /\ ctxState[i] = "active"
    /\ ctxState' = [ctxState EXCEPT ![i] = "expired"]
    /\ UNCHANGED <<config, defaults, mainState, apiCalls, response, coordState,
                   coordStopReq, coordMailbox, syncActors, notFoundLog, parent,
                   wState, stopReq, mailbox, handling, pc, inFlight,
                   cancelFunc, runErr, nextSchedule, orphanTimers,
                   runsCompleted, outcomesSent, timerDelay, engineVars,
                   mapperVars>>

\* performSync: the result message built from the engine's error.
performSyncResult(i) ==
    SyncResultMessage(config[i].TargetTable, runErr[i] = "none")

\* performSync: the result is sent when the actor has a parent.
SendsResult(i) == parent[i] # "none"

\* scheduleNextSync without the stored timer: a message to the actor itself
\* right away and a further timer nobody can stop.
scheduleNextSyncUntracked(i) ==
    [nextSchedule |-> nextSchedule[i], orphanTimers |-> orphanTimers[i] + 1,
     sends |-> <<ScheduleSyncMessage>>, timerDelay |-> timerDelay[i]]

\* scheduleNextSync: the delay of the timer, from the resolved refresh rate
\* r in seconds.  The product is a Duration, 64 bits of nanoseconds, and
\* a delay that is not positive is replaced by one second.
Delay(r) ==
    LET refreshRate == Mul(r, Second)
    IN  IF NonPositive(refreshRate) THEN Second ELSE refreshRate

\* scheduleNextSync: the previous timer, if any, is stopped, and a new one is
\* armed and stored; nothing is sent to the actor itself.
scheduleNextSync(i) ==
    [nextSchedule |-> "armed", orphanTimers |-> orphanTimers[i], sends |-> <<>>,
     timerDelay |-> Delay(GetRefreshRate(config[i], defaults))]

\* Rescheduling only after a run without error.
ReschedulesOnSuccess(i) ==
    /\ handling[i] = "Schedule"
    /\ GetProtoActorTrigger(config[i], defaults)
    /\ runErr[i] = "none"

\* Rescheduling after every run of a worker with the auto trigger, manual
\* runs included.
ReschedulesAfterEveryRun(i) == GetProtoActorTrigger(config[i], defaults)

\* The ScheduleSyncMessage handler after performSync: the next sync is
\* scheduled when the auto trigger is enabled, whatever the run's result.
Reschedules(i) ==
    handling[i] = "Schedule" /\ GetProtoActorTrigger(config[i], defaults)

\* performSync without the deferred function: cancel is not called and
\* the stored cancel function is not cleared when the run returns.
PerformSyncReturnKeepsCancel(i) ==
    /\ ProcessRunning
    /\ pc[i] = "report"
    /\ coordMailbox' = IF SendsResult(i)
                       THEN SendToCoordinator(coordMailbox, performSyncResult(i))
                       ELSE coordMailbox
    /\ outcomesSent' = [outcomesSent EXCEPT ![i] = IF SendsResult(i) THEN @ + 1 ELSE @]
    /\ runsCompleted' = [runsCompleted EXCEPT ![i] = @ + 1]
    /\ cancelFunc' = cancelFunc
    /\ ctxState' = [ctxState EXCEPT ![i] = "none"]
    /\ inFlight' = [inFlight EXCEPT ![i] = @ - 1]
    /\ LET s == IF Reschedules(i)
                THEN scheduleNextSync(i)
                ELSE [nextSchedule |-> nextSchedule[i],
                      orphanTimers |-> orphanTimers[i], sends |-> <<>>,
                      timerDelay |-> timerDelay[i]]
       IN  /\ nextSchedule' = [nextSchedule EXCEPT ![i] = s.nextSchedule]
           /\ orphanTimers' = [orphanTimers EXCEPT ![i] = s.orphanTimers]
           /\ timerDelay' = [timerDelay EXCEPT ![i] = s.timerDelay]
           /\ mailbox' = [mailbox EXCEPT ![i] = @ \o s.sends]
    /\ handling' = [handling EXCEPT ![i] = "none"]
    /\ pc' = [pc EXCEPT ![i] = "idle"]
    /\ UNCHANGED <<config, defaults, mainState, apiCalls, response, coordState,
                   coordStopReq, syncActors, notFoundLog, parent, wState,
                   stopReq, runErr, engineVars, mapperVars>>

\* performSync from the return of SyncTable on (result sent to the parent,
\* deferred cancel and cancelFunc = nil), then the rest of the handler.
PerformSyncReturn(i) ==
    /\ ProcessRunning
    /\ pc[i] = "report"
    /\ coordMailbox' = IF SendsResult(i)
                       THEN SendToCoordinator(coordMailbox, performSyncResult(i))
                       ELSE coordMailbox
    /\ outcomesSent' = [outcomesSent EXCEPT ![i] = IF SendsResult(i) THEN @ + 1 ELSE @]
    /\ runsCompleted' = [runsCompleted EXCEPT ![i] = @ + 1]
    /\ cancelFunc' = [cancelFunc EXCEPT ![i] = FALSE]
    /\ ctxState' = [ctxState EXCEPT ![i] = "none"]
    /\ inFlight' = [inFlight EXCEPT ![i] = @ - 1]
    /\ LET s == IF Reschedules(i)
                THEN scheduleNextSync(i)
                ELSE [nextSchedule |-> nextSchedule[i],
                      orphanTimers |-> orphanTimers[i], sends |-> <<>>,
                      timerDelay |-> timerDelay[i]]
       IN  /\ nextSchedule' = [nextSchedule EXCEPT ![i] = s.nextSchedule]
           /\ orphanTimers' = [orphanTimers EXCEPT ![i] = s.orphanTimers]
           /\ timerDelay' = [timerDelay EXCEPT ![i] = s.timerDelay]
           /\ mailbox' = [mailbox EXCEPT ![i] = @ \o s.sends]
    /\ handling' = [handling EXCEPT ![i] = "none"]
    /\ pc' = [pc EXCEPT ![i] = "idle"]
    /\ UNCHANGED <<config, defaults, mainState, apiCalls, response, coordState,
                   coordStopReq, syncActors, notFoundLog, parent, wState,
                   stopReq, runErr, engineVars, mapperVars>>

\* The timers of worker i that can fire: the stored one, or one it no
\* longer references.
ArmedTimers(i) ==
    (IF nextSchedule[i] = "armed" THEN {"stored"} ELSE {})
        \cup (IF orphanTimers[i] > 0 THEN {"orphan"} ELSE {})

\* A timer whose callback calls performSync itself instead of sending a
\* message: the run starts on the timer's goroutine.
TimerFireRuns(i) ==
    /\ ProcessRunning
    /\ RunsStarted < MaxRuns
    /\ \E t \in ArmedTimers(i) :
        /\ nextSchedule' = [nextSchedule EXCEPT ![i] = IF t = "stored" THEN "fired" ELSE @]
        /\ orphanTimers' = [orphanTimers EXCEPT ![i] = IF t = "orphan" THEN @ - 1 ELSE @]
    /\ inFlight' = [inFlight EXCEPT ![i] = @ + 1]
    /\ handling' = [handling EXCEPT ![i] = "Schedule"]
    /\ pc' = [pc EXCEPT ![i] = "introspect"]
    /\ UNCHANGED <<config, defaults, mainState, apiCalls, response, coordState,
                   coordStopReq, coordMailbox, syncActors, notFoundLog, parent,
                   wState, stopReq, mailbox, cancelFunc, ctxState, runErr,
                   runsCompleted, outcomesSent, timerDelay, engineVars,
                   mapperVars>>

\* The time.AfterFunc callback of scheduleNextSync: Root.Send of a
\* ScheduleSyncMessage to the worker's PID.
TimerFire(i) ==
    /\ ProcessRunning
    /\ \E t \in ArmedTimers(i) :
        /\ nextSchedule' = [nextSchedule EXCEPT ![i] = IF t = "stored" THEN "fired" ELSE @]
        /\ orphanTimers' = [orphanTimers EXCEPT ![i] = IF t = "orphan" THEN @ - 1 ELSE @]
    /\ mailbox' = SendTo(mailbox, i, ScheduleSyncMessage)
    /\ UNCHANGED <<config, defaults, mainState, apiCalls, response, coordState,
                   coordStopReq, coordMailbox, syncActors, notFoundLog, parent,
                   wState, stopReq, handling, pc, inFlight, cancelFunc,
                   ctxState, runErr, runsCompleted, outcomesSent, timerDelay,
                   engineVars, mapperVars>>

\* The Stopping handler without the call of stopSchedule: the stored timer
\* is left as it is.
stopScheduleSkipped(i) == nextSchedule[i]

\* stopSchedule: the stored timer, if any, is stopped and forgotten.
stopSchedule(i) ==
    IF nextSchedule[i] # "nil" THEN "nil" ELSE nextSchedule[i]

\* SyncActor.Receive, *actor.Stopping: the Stop system message is taken by
\* the mailbox's consumer like any message, between two handlers.
WorkerStopping(i) ==
    /\ ProcessRunning
    /\ wState[i] = "alive"
    /\ stopReq[i]
    /\ MailboxIdle(i)
    /\ wState' = [wState EXCEPT ![i] = "stopping"]
    /\ ctxState' = [ctxState EXCEPT ![i] = IF cancelFunc[i] THEN "cancelled" ELSE @]
    /\ cancelFunc' = [cancelFunc EXCEPT ![i] = FALSE]
    /\ nextSchedule' = [nextSchedule EXCEPT ![i] = stopSchedule(i)]
    /\ UNCHANGED <<config, defaults, mainState, apiCalls, response, coordState,
                   coordStopReq, coordMailbox, syncActors, notFoundLog, parent,
                   stopReq, mailbox, handling, pc, inFlight, runErr,
                   orphanTimers, runsCompleted, outcomesSent, timerDelay,
                   engineVars, mapperVars>>

\* SyncActor.Receive, *actor.Stopped: the actor has no children, so it
\* terminates right after Stopping.
WorkerStopped(i) ==
    /\ ProcessRunning
    /\ wState[i] = "stopping"
    /\ wState' = [wState EXCEPT ![i] = "stopped"]
    /\ UNCHANGED <<config, defaults, mainState, apiCalls, response, coordState,
                   coordStopReq, coordMailbox, syncActors, notFoundLog, parent,
                   stopReq, mailbox, handling, pc, inFlight, cancelFunc,
                   ctxState, runErr, nextSchedule, orphanTimers, runsCompleted,
                   outcomesSent, timerDelay, engineVars, mapperVars>>

\* ------------------------------------------------------------- shutdown
\* main: actorSystem.Root.StopFuture(coordinatorPID) posts a Stop system
\* message to the coordinator and returns a future main waits on.
MainStopFuture ==
    /\ mainState = "running"
    /\ mainState' = "waiting"
    /\ coordStopReq' = TRUE
    /\ UNCHANGED <<config, defaults, apiCalls, response, coordState,
                   coordMailbox, syncActors, notFoundLog, parent, wState,
                   stopReq, mailbox, handling, pc, inFlight, cancelFunc,
                   ctxState, runErr, nextSchedule, orphanTimers, runsCompleted,
                   outcomesSent, timerDelay, engineVars, mapperVars>>

\* The children a stopping coordinator sends Stop to.
Children == {i \in Workers : Registered(i)}

\* CoordinatorActor.Receive, *actor.Stopping, then the Stop of every child.
CoordStopping ==
    /\ ProcessRunning
    /\ coordState = "alive"
    /\ coordStopReq
    /\ coordState' = "stopping"
    /\ coordStopReq' = FALSE
    /\ stopReq' = [i \in Workers |-> stopReq[i] \/ i \in Children]
    /\ UNCHANGED <<config, defaults, mainState, apiCalls, response,
                   coordMailbox, syncActors, notFoundLog, parent, wState,
                   mailbox, handling, pc, inFlight, cancelFunc, ctxState,
                   runErr, nextSchedule, orphanTimers, runsCompleted,
                   outcomesSent, timerDelay, engineVars, mapperVars>>

\* CoordinatorActor.Receive, *actor.Stopped: every child has terminated; the
\* future completes and main returns from Wait.
CoordStopped ==
    /\ ProcessRunning
    /\ coordState = "stopping"
    /\ Children = {}
    /\ coordState' = "stopped"
    /\ mainState' = "exited"
    /\ UNCHANGED <<config, defaults, apiCalls, response, coordStopReq,
                   coordMailbox, syncActors, notFoundLog, parent, wState,
                   stopReq, mailbox, handling, pc, inFlight, cancelFunc,
                   ctxState, runErr, nextSchedule, orphanTimers, runsCompleted,
                   outcomesSent, timerDelay, engineVars, mapperVars>>

\* The future of StopFuture carries a 10 s timeout: Wait returns when it
\* passes, whether or not the coordinator has terminated. Handlers that do
\* not block finish well within it; a database call of the engine need not.
FutureTimeout ==
    /\ mainState = "waiting"
    /\ \E i \in Workers : Registered(i) /\ pc[i] \in EnginePhases
    /\ mainState' = "exited"
    /\ UNCHANGED <<config, defaults, apiCalls, response, coordState,
                   coordStopReq, coordMailbox, syncActors, notFoundLog, parent,
                   wState, stopReq, mailbox, handling, pc, inFlight,
                   cancelFunc, ctxState, runErr, nextSchedule, orphanTimers,
                   runsCompleted, outcomesSent, timerDelay, engineVars,
                   mapperVars>>

\* ------------------------------------------------------------ type mapper
\* Largest length mapMSSQLToPostgreSQL carries into VARCHAR(n).
MaxVarcharLength == 10485760

\* DATA_TYPE values passed to the mapper: those of its switch, some of them
\* written with capitals, and names the switch does not list.
TypeNames ==
    {"int", "INT", "bigint", "smallint", "tinyint", "bit", "decimal", "Decimal",
     "numeric", "money", "smallmoney", "float", "real", "date", "datetime",
     "datetime2", "smalldatetime", "time", "char", "Char", "varchar", "VARCHAR",
     "nchar", "nvarchar", "NVarChar", "text", "ntext", "uniqueidentifier",
     "varbinary", "binary", "image", "xml", "XML", "geography", "sql_variant", ""}

\* strings.ToLower on the names above.
ToLower(name) ==
    CASE name = "INT" -> "int"
      [] name = "Decimal" -> "decimal"
      [] name = "Char" -> "char"
      [] name = "VARCHAR" -> "varchar"
      [] name = "NVarChar" -> "nvarchar"
      [] name = "XML" -> "xml"
      [] OTHER -> name

\* ColumnInfo values passed to the mapper. A length of -1 is what the
\* source reports for varchar(max).
ColumnInfos ==
    [Name : {"A"}, DataType : TypeNames,
     Length : {-1, 0, 1, MaxVarcharLength, MaxVarcharLength + 1},
     Precision : {0, 5}, Scale : {0, 2}, Nullable : BOOLEAN]

\* A target type: its name and the numbers written in parentheses after it.
PGType(base, args) == [base |-> base, args |-> args]

\* The value of the model's variables before a call of the mapper.
NoColumn ==
    [Name |-> "", DataType |-> "", Length |-> 0, Precision |-> 0, Scale |-> 0,
     Nullable |-> FALSE]
NoType == PGType("", <<>>)

\* The switch of mapMSSQLToPostgreSQL on the type name t for column c.
mapSwitch(t, c) ==
    CASE t = "int" -> PGType("INTEGER", <<>>)
      [] t = "bigint" -> PGType("BIGINT", <<>>)
      [] t = "smallint" -> PGType("SMALLINT", <<>>)
      [] t = "tinyint" -> PGType("SMALLINT", <<>>)
      [] t = "bit" -> PGType("BOOLEAN", <<>>)
      [] t \in {"decimal", "numeric"} ->
            IF c.Precision > 0
            THEN PGType("NUMERIC", <<c.Precision, c.Scale>>)
            ELSE PGType("NUMERIC", <<>>)
      [] t \in {"money", "smallmoney"} -> PGType("NUMERIC", <<19, 4>>)
      [] t = "float" -> PGType("DOUBLE PRECISION", <<>>)
      [] t = "real" -> PGType("REAL", <<>>)
      [] t = "date" -> PGType("DATE", <<>>)
      [] t \in {"datetime", "datetime2", "smalldatetime"} -> PGType("TIMESTAMP", <<>>)
      [] t = "time" -> PGType("TIME", <<>>)
      [] t = "char" ->
            IF c.Length > 0 THEN PGType("CHAR", <<c.Length>>) ELSE PGType("CHAR", <<1>>)
      [] t = "varchar" ->
            IF c.Length > 0 /\ c.Length <= MaxVarcharLength
            THEN PGType("VARCHAR", <<c.Length>>)
            ELSE PGType("TEXT", <<>>)
      [] t = "nchar" ->
            IF c.Length > 0 THEN PGType("CHAR", <<c.Length>>) ELSE PGType("CHAR", <<1>>)
      [] t = "nvarchar" ->
            IF c.Length > 0 /\ c.Length <= MaxVarcharLength
            THEN PGType("VARCHAR", <<c.Length>>)
            ELSE PGType("TEXT", <<>>)
      [] t \in {"text", "ntext"} -> PGType("TEXT", <<>>)
      [] t = "uniqueidentifier" -> PGType("UUID", <<>>)
      [] t \in {"varbinary", "binary", "image"} -> PGType("BYTEA", <<>>)
      [] t = "xml" -> PGType("XML", <<>>)
      [] OTHER -> PGType("TEXT", <<>>)

\* A mapper that switches on the type name as the source wrote it.
mapMSSQLToPostgreSQLExact(c) == mapSwitch(c.DataType, c)

\* mapMSSQLToPostgreSQL: the switch on the lower-cased type name.
mapMSSQLToPostgreSQL(c) == mapSwitch(ToLower(c.DataType), c)

\* No mapper call in progress.
MapperIdle == col = NoColumn /\ pgType = NoType

\* ------------------------------------------------------------ sync engine
\* Columns of the source table, by ordinal position.
SourceColumns == <<"A", "B">>
\* Values a column holds.
Values == {1, 2}
SourceRow == [{"A", "B"} -> Values]
\* A row loaded by an earlier run.
OldRow == [c \in {"A", "B"} |-> 0]

RECURSIVE SeqsUpTo(_, _)
SeqsUpTo(S, n) ==
    IF n = 0 THEN {<<>>}
    ELSE LET shorter == SeqsUpTo(S, n - 1)
         IN  shorter \cup {Append(q, x) : q \in {r \in shorter : Len(r) = n - 1}, x \in S}

\* Lower-case form of the names used (strings.EqualFold compares these).
Lower(name) ==
    CASE name = "A" -> "a"
      [] name = "B" -> "b"
      [] OTHER -> name

EqualFold(x, y) == Lower(x) = Lower(y)

\* TableConfig.Fields and TableConfig.Filter explored.
FieldLists == {<<>>, <<"a">>, <<"z">>, <<"b", "a">>, <<"a", "A">>}
Filters == {"", "A = 1"}

\* The WHERE clause of fetchSourceData, evaluated by the source database.
Matches(row, filter) == filter = "" \/ row["A"] = 1

RECURSIVE SelectSeq2(_, _)
\* The elements of seq for which keep holds, in order (keep is a set).
SelectSeq2(seq, keep) ==
    IF seq = <<>> THEN <<>>
    ELSE (IF Head(seq) \in keep THEN <<Head(seq)>> ELSE <<>>) \o SelectSeq2(Tail(seq), keep)

\* getSourceColumns comparing the requested fields with == instead of
\* strings.EqualFold.
ResolveColumnsExact(srcCols, requestedFields) ==
    SelectSeq2(srcCols,
               {c \in {srcCols[k] : k \in DOMAIN srcCols} :
                    \/ Len(requestedFields) = 0
                    \/ \E f \in DOMAIN requestedFields : requestedFields[f] = c})

\* getSourceColumns: the source columns in ordinal order, those not matching
\* a requested field (ignoring case) left out when fields are requested.
ResolveColumns(srcCols, requestedFields) ==
    SelectSeq2(srcCols,
               {c \in {srcCols[k] : k \in DOMAIN srcCols} :
                    \/ Len(requestedFields) = 0
                    \/ \E f \in DOMAIN requestedFields : EqualFold(requestedFields[f], c)})

\* fetchSourceData: the rows the SELECT returns, each scanned into a map
\* keyed by the selected column names.
RECURSIVE FetchRows(_, _, _)
FetchRows(rows, cols, filter) ==
    IF rows = <<>> THEN <<>>
    ELSE (IF Matches(Head(rows), filter)
          THEN <<[c \in {cols[k] : k \in DOMAIN cols} |-> Head(rows)[c]]>>
          ELSE <<>>) \o FetchRows(Tail(rows), cols, filter)

\* syncToTarget filling values from the last column to the first.
PackValuesReversed(row, cols) == [k \in DOMAIN cols |-> row[cols[Len(cols) + 1 - k]]]

\* syncToTarget: values[i] = row[col.Name] for the i-th column.
PackValues(row, cols) == [k \in DOMAIN cols |-> row[cols[k]]]

\* INSERT INTO t (cols) VALUES ($1..$n): the stored row has values[k] in the
\* k-th named column.
InsertedRow(values, cols) ==
    [c \in {cols[k] : k \in DOMAIN cols} |->
        values[CHOOSE k \in DOMAIN cols : cols[k] = c]]

\* TableConfig.SourceTable and TableConfig.TargetTable explored: a
\* schema-qualified name and a bare one that is a reserved word.
SourceTables == {"dbo.Users"}
TargetTables == {"public.Order", "Order"}

\* The rows of INFORMATION_SCHEMA.COLUMNS for the source table, scanned into
\* ColumnInfo values.
ColumnInfoOf(name) ==
    IF name = "A"
    THEN [Name |-> "A", DataType |-> "int", Length |-> 0, Precision |-> 10,
          Scale |-> 0, Nullable |-> FALSE]
    ELSE [Name |-> name, DataType |-> "nvarchar", Length |-> 1, Precision |-> 0,
          Scale |-> 0, Nullable |-> TRUE]

\* The text of a statement is the sequence of the pieces fmt.Sprintf and
\* strings.Join put together.
RECURSIVE Join(_, _)
Join(elems, sep) ==
    IF elems = <<>> THEN <<>>
    ELSE IF Len(elems) = 1 THEN elems[1]
    ELSE elems[1] \o <<sep>> \o Join(Tail(elems), sep)

\* The text of a target type returned by the mapper.
TypeText(t) ==
    <<t.base>> \o
    (IF t.args = <<>> THEN <<>>
     ELSE <<"(">> \o Join([k \in DOMAIN t.args |-> <<ToString(t.args[k])>>], ",")
                 \o <<")">>)

\* createTargetTable: "\"%s\" %s%s" of name, mapped type and nullability.
colDef(c) ==
    <<"\"", c, "\"", " ">> \o TypeText(mapMSSQLToPostgreSQL(ColumnInfoOf(c)))
        \o <<IF ColumnInfoOf(c).Nullable THEN "" ELSE " NOT NULL">>

\* createTargetTable: "CREATE TABLE %s (\n  %s\n)".
createQuery(tableName, cols) ==
    <<"CREATE TABLE ", tableName, " (">>
        \o Join([k \in DOMAIN cols |-> colDef(cols[k])], ", ") \o <<")">>

\* fetchSourceData: "SELECT %s FROM %s" over the columns as "[%s]", with
\* " WHERE %s" when a filter is configured.
fetchQuery(tableConfig, cols) ==
    <<"SELECT ">> \o Join([k \in DOMAIN cols |-> <<"[", cols[k], "]">>], ", ")
        \o <<" FROM ", tableConfig.SourceTable>>
        \o (IF tableConfig.Filter # "" THEN <<" WHERE ", tableConfig.Filter>> ELSE <<>>)

\* syncToTarget: "TRUNCATE TABLE %s".
truncateQuery(tableName) == <<"TRUNCATE TABLE ", tableName>>

\* syncToTarget: "INSERT INTO %s (%s) VALUES (%s)" over the columns as
\* "\"%s\"" and the placeholders $1 .. $n.
insertQuery(tableName, cols) ==
    <<"INSERT INTO ", tableName, " (">>
        \o Join([k \in DOMAIN cols |-> <<"\"", cols[k], "\"">>], ", ")
        \o <<") VALUES (">>
        \o Join([k \in DOMAIN cols |-> <<"$", ToString(k)>>], ", ")
        \o <<")">>

\* The engine before a run, for the specification of the actors.
EngineIdle ==
    /\ job = [SourceTable |-> "dbo.Users", TargetTable |-> "Order",
              Fields |-> <<>>, Filter |-> "", CreateTargetTable |-> TRUE]
    /\ sourceRows = <<>>
    /\ targetExists = TRUE
    /\ target = <<>>
    /\ pre = <<>>
    /\ epc = "done"
    /\ columns = <<>>
    /\ data = <<>>
    /\ tx = "none"
    /\ txRows = <<>>
    /\ nextRow = 1
    /\ issued = <<>>
    /\ err = "none"
    /\ engineRun = 1
    /\ queries = <<>>
    /\ preExists = TRUE
    /\ targetColumns = SourceColumns

\* The engine at the call of SyncTable.
EngineInit ==
    /\ ActorInitWith(CHOOSE s \in Setups : TRUE)
    /\ MapperIdle
    /\ job \in [SourceTable : SourceTables, TargetTable : TargetTables,
                 Fields : FieldLists, Filter : Filters,
                 CreateTargetTable : BOOLEAN]
    /\ sourceRows \in SeqsUpTo(SourceRow, MaxRows)
    /\ targetExists \in BOOLEAN
    /\ target \in IF targetExists THEN {<<>>, <<OldRow>>} ELSE {<<>>}
    /\ pre = target
    /\ epc = "introspect"
    /\ columns = <<>>
    /\ data = <<>>
    /\ tx = "none"
    /\ txRows = <<>>
    /\ nextRow = 1
    /\ issued = <<>>
    /\ err = "none"
    /\ engineRun = 1
    /\ queries = <<>>
    /\ preExists = targetExists
    /\ targetColumns = IF targetExists THEN SourceColumns ELSE <<>>

\* The outcomes of a database call: TRUE = no error.
CallOutcomes == BOOLEAN

\* SyncTable, step 1: getSourceColumns.
getSourceColumns ==
    /\ epc = "introspect"
    /\ \E ok \in CallOutcomes :
        IF ok
        THEN /\ columns' = ResolveColumns(SourceColumns, job.Fields)
             /\ epc' = IF job.CreateTargetTable THEN "create" ELSE "fetch"
             /\ err' = err
        ELSE /\ columns' = columns
             /\ epc' = "done"
             /\ err' = "failed to get source columns"
    /\ UNCHANGED <<actorVars, job, sourceRows, targetExists, target, pre, data,
                   tx, txRows, nextRow, issued, engineRun, queries, preExists,
                   targetColumns, mapperVars>>

\* createTargetTable without the return for an existing table: CREATE TABLE
\* is executed whatever the existence query finds, and the target database
\* rejects it for a relation that exists.
createTargetTableUnchecked ==
    /\ epc = "create"
    /\ \E checked \in CallOutcomes, created \in CallOutcomes :
        IF ~checked
        THEN /\ epc' = "done"
             /\ err' = "failed to create target table"
             /\ issued' = Append(issued, "EXISTS")
             /\ UNCHANGED <<targetExists, target, targetColumns, queries>>
        ELSE /\ issued' = issued \o <<"EXISTS", "CREATE">>
             /\ queries' = Append(queries, createQuery(job.TargetTable, columns))
             /\ IF created /\ ~targetExists
                THEN /\ epc' = "fetch"
                     /\ err' = err
                     /\ targetExists' = TRUE
                     /\ target' = <<>>
                     /\ targetColumns' = columns
                ELSE /\ epc' = "done"
                     /\ err' = "failed to create target table"
                     /\ UNCHANGED <<targetExists, target, targetColumns>>
    /\ UNCHANGED <<actorVars, job, sourceRows, pre, columns, data, tx, txRows,
                   nextRow, engineRun, preExists, mapperVars>>

\* SyncTable, step 2: createTargetTable. The existence query fails, or finds
\* the table, or does not find it and CREATE TABLE succeeds or fails.
createTargetTable ==
    /\ epc = "create"
    /\ \E checked \in CallOutcomes, created \in CallOutcomes :
        IF ~checked
        THEN /\ epc' = "done"
             /\ err' = "failed to create target table"
             /\ issued' = Append(issued, "EXISTS")
             /\ UNCHANGED <<targetExists, target, targetColumns, queries>>
        ELSE IF targetExists
        THEN /\ epc' = "fetch"
             /\ issued' = Append(issued, "EXISTS")
             /\ UNCHANGED <<err, targetExists, target, targetColumns, queries>>
        ELSE /\ issued' = issued \o <<"EXISTS", "CREATE">>
             /\ queries' = Append(queries, createQuery(job.TargetTable, columns))
             /\ IF created
                THEN /\ epc' = "fetch"
                     /\ err' = err
                     /\ targetExists' = TRUE
                     /\ target' = <<>>
                     /\ targetColumns' = columns
                ELSE /\ epc' = "done"
                     /\ err' = "failed to create target table"
                     /\ UNCHANGED <<targetExists, target, targetColumns>>
    /\ UNCHANGED <<actorVars, job, sourceRows, pre, columns, data, tx, txRows,
                   nextRow, engineRun, preExists, mapperVars>>

\* The SELECT of fetchSourceData has an empty column list when no column was
\* resolved, which the source database rejects.
FetchOutcomes == IF columns = <<>> THEN {FALSE} ELSE CallOutcomes

\* SyncTable without the return after a failed fetchSourceData: the error is
\* kept and syncToTarget is called with the nil result.
fetchSourceDataContinue ==
    /\ epc = "fetch"
    /\ \E ok \in FetchOutcomes :
        IF ok
        THEN /\ data' = FetchRows(sourceRows, columns, job.Filter)
             /\ epc' = "load"
             /\ err' = err
        ELSE /\ data' = data
             /\ epc' = "load"
             /\ err' = "failed to fetch source data"
    /\ queries' = Append(queries, fetchQuery(job, columns))
    /\ UNCHANGED <<actorVars, job, sourceRows, targetExists, target, pre,
                   columns, tx, txRows, nextRow, issued, engineRun, preExists,
                   targetColumns, mapperVars>>

\* SyncTable, step 3: fetchSourceData.
fetchSourceData ==
    /\ epc = "fetch"
    /\ \E ok \in FetchOutcomes :
        IF ok
        THEN /\ data' = FetchRows(sourceRows, columns, job.Filter)
             /\ epc' = "load"
             /\ err' = err
        ELSE /\ data' = data
             /\ epc' = "done"
             /\ err' = "failed to fetch source data"
    /\ queries' = Append(queries, fetchQuery(job, columns))
    /\ UNCHANGED <<actorVars, job, sourceRows, targetExists, target, pre,
                   columns, tx, txRows, nextRow, issued, engineRun, preExists,
                   targetColumns, mapperVars>>

\* syncToTarget returns err: the deferred tx.Rollback discards the
\* transaction's changes.
LoadFails ==
    /\ epc' = "done"
    /\ err' = "failed to sync to target"
    /\ tx' = IF tx = "open" THEN "rolledback" ELSE tx
    /\ txRows' = <<>>

\* syncToTarget without the check for an empty result: the transaction is
\* opened whatever was fetched.
syncToTargetBeginAlways ==
    /\ epc = "load"
    /\ \E ok \in CallOutcomes :
        IF ok
        THEN /\ epc' = "truncate"
             /\ tx' = "open"
             /\ txRows' = target
             /\ issued' = Append(issued, "BEGIN")
             /\ err' = err
        ELSE LoadFails /\ UNCHANGED issued
    /\ UNCHANGED <<actorVars, job, sourceRows, targetExists, target, pre,
                   columns, data, nextRow, engineRun, queries, preExists,
                   targetColumns, mapperVars>>

\* SyncTable, step 4, syncToTarget up to Beginx: nothing is done for an
\* empty result; otherwise the transaction is opened.
syncToTargetBegin ==
    /\ epc = "load"
    /\ IF Len(data) = 0
       THEN /\ epc' = "done"
            /\ UNCHANGED <<err, tx, txRows, issued>>
       ELSE \E ok \in CallOutcomes :
            IF ok
            THEN /\ epc' = "truncate"
                 /\ tx' = "open"
                 /\ txRows' = target
                 /\ issued' = Append(issued, "BEGIN")
                 /\ err' = err
            ELSE LoadFails /\ UNCHANGED issued
    /\ UNCHANGED <<actorVars, job, sourceRows, targetExists, target, pre,
                   columns, data, nextRow, engineRun, queries, preExists,
                   targetColumns, mapperVars>>

\* TRUNCATE TABLE fails on a relation that does not exist.
TruncateOutcomes == IF targetExists THEN CallOutcomes ELSE {FALSE}

\* TRUNCATE TABLE executed on the database handle instead of the
\* transaction: it takes effect at once and no rollback undoes it.
syncToTargetTruncateOutsideTx ==
    /\ epc = "truncate"
    /\ issued' = Append(issued, "TRUNCATE")
    /\ queries' = Append(queries, truncateQuery(job.TargetTable))
    /\ \E ok \in TruncateOutcomes :
        IF ok
        THEN /\ epc' = "prepare"
             /\ txRows' = <<>>
             /\ target' = <<>>
             /\ UNCHANGED <<tx, err>>
        ELSE LoadFails /\ UNCHANGED target
    /\ UNCHANGED <<actorVars, job, sourceRows, targetExists, pre, columns,
                   data, nextRow, engineRun, preExists, targetColumns,
                   mapperVars>>

\* syncToTarget without the TRUNCATE taking effect: the rows already in the
\* target stay and the fetched rows are added to them.
syncToTargetAppend ==
    /\ epc = "truncate"
    /\ issued' = Append(issued, "TRUNCATE")
    /\ queries' = Append(queries, truncateQuery(job.TargetTable))
    /\ \E ok \in TruncateOutcomes :
        IF ok
        THEN /\ epc' = "prepare"
             /\ UNCHANGED <<tx, txRows, err>>
        ELSE LoadFails
    /\ UNCHANGED <<actorVars, job, sourceRows, targetExists, target, pre,
                   columns, data, nextRow, engineRun, preExists, targetColumns,
                   mapperVars>>

\* syncToTarget: TRUNCATE TABLE inside the transaction.
syncToTargetTruncate ==
    /\ epc = "truncate"
    /\ issued' = Append(issued, "TRUNCATE")
    /\ queries' = Append(queries, truncateQuery(job.TargetTable))
    /\ \E ok \in TruncateOutcomes :
        IF ok
        THEN /\ epc' = "prepare"
             /\ txRows' = <<>>
             /\ UNCHANGED <<tx, err>>
        ELSE LoadFails
    /\ UNCHANGED <<actorVars, job, sourceRows, targetExists, target, pre,
                   columns, data, nextRow, engineRun, preExists, targetColumns,
                   mapperVars>>

\* syncToTarget: Preparex of the INSERT statement.
syncToTargetPrepare ==
    /\ epc = "prepare"
    /\ queries' = Append(queries, insertQuery(job.TargetTable, columns))
    /\ \E ok \in CallOutcomes :
        IF ok
        THEN /\ epc' = "insert"
             /\ nextRow' = 1
             /\ UNCHANGED <<tx, txRows, err>>
        ELSE LoadFails /\ UNCHANGED nextRow
    /\ UNCHANGED <<actorVars, job, sourceRows, targetExists, target, pre,
                   columns, data, issued, engineRun, preExists, targetColumns,
                   mapperVars>>

\* syncToTarget: one iteration of the insert loop.
syncToTargetInsert ==
    /\ epc = "insert"
    /\ nextRow <= Len(data)
    /\ issued' = Append(issued, "INSERT")
    /\ \E ok \in CallOutcomes :
        IF ok
        THEN /\ txRows' = Append(txRows,
                    InsertedRow(PackValues(data[nextRow], columns), columns))
             /\ nextRow' = nextRow + 1
             /\ UNCHANGED <<epc, tx, err>>
        ELSE LoadFails /\ UNCHANGED nextRow
    /\ UNCHANGED <<actorVars, job, sourceRows, targetExists, target, pre,
                   columns, data, engineRun, queries, preExists, targetColumns,
                   mapperVars>>

\* syncToTarget: Commit after the last row; the deferred Rollback is then a
\* no-op. A failed commit leaves the committed rows as they were.
syncToTargetCommit ==
    /\ epc = "insert"
    /\ nextRow > Len(data)
    /\ issued' = Append(issued, "COMMIT")
    /\ \E ok \in CallOutcomes :
        IF ok
        THEN /\ target' = txRows
             /\ tx' = "committed"
             /\ epc' = "done"
             /\ UNCHANGED <<txRows, err>>
        ELSE LoadFails /\ UNCHANGED target
    /\ UNCHANGED <<actorVars, job, sourceRows, targetExists, pre, columns,
                   data, nextRow, engineRun, queries, preExists, targetColumns,
                   mapperVars>>

\* ---------------------------------------------------------- specification
\* The actors before the coordinator has handled Started.
Init == (\E s \in Setups : ActorInitWith(s)) /\ EngineIdle /\ MapperIdle

Next ==
    \/ CoordStarted
    \/ \E name \in TargetNames \cup {Unknown} : APITriggerSync(name)
    \/ APITriggerAll
    \/ CoordReceive
    \/ \E i \in Workers : WorkerStarted(i)
    \/ \E i \in Workers : WorkerReceive(i)
    \/ \E i \in Workers : EngineStep(i)
    \/ \E i \in Workers : CtxExpire(i)
    \/ \E i \in Workers : PerformSyncReturn(i)
    \/ \E i \in Workers : TimerFire(i)
    \/ \E i \in Workers : WorkerStopping(i)
    \/ \E i \in Workers : WorkerStopped(i)
    \/ MainStopFuture
    \/ CoordStopping
    \/ CoordStopped
    \/ FutureTimeout

Spec == Init /\ [][Next]_vars

\* One run of the engine on its own, from every source table, allow-list,
\* filter, policy and earlier target contents within the bounds.
EngineNext ==
    \/ getSourceColumns
    \/ createTargetTable
    \/ fetchSourceData
    \/ syncToTargetBegin
    \/ syncToTargetTruncate
    \/ syncToTargetPrepare
    \/ syncToTargetInsert
    \/ syncToTargetCommit

EngineSpec == EngineInit /\ [][EngineNext]_vars

\* SyncTable is called once more for the same table after a call that
\* returned nil; the source table is as it was.
SyncTableAgain ==
    /\ epc = "done"
    /\ err = "none"
    /\ engineRun < MaxEngineRuns
    /\ engineRun' = engineRun + 1
    /\ pre' = target
    /\ epc' = "introspect"
    /\ columns' = <<>>
    /\ data' = <<>>
    /\ tx' = "none"
    /\ txRows' = <<>>
    /\ nextRow' = 1
    /\ issued' = <<>>
    /\ queries' = <<>>
    /\ preExists' = targetExists
    /\ UNCHANGED <<actorVars, job, sourceRows, targetExists, target, err,
                   targetColumns, mapperVars>>

RepeatNext ==
    \/ EngineNext
    \/ SyncTableAgain

\* Consecutive runs of the engine for one table over an unchanged source.
RepeatSpec == EngineInit /\ [][RepeatNext]_vars

\* The configuration without automatic triggers: runs start from requests
\* to the API only.
ManualInit ==
    /\ \E s \in Setups :
        /\ ~s.defaults.ProtoActorTrigger
        /\ \A k \in DOMAIN s.tables : s.tables[k].ProtoActorTrigger # "true"
        /\ ActorInitWith(s)
    /\ EngineIdle
    /\ MapperIdle

ManualNext ==
    \/ CoordStarted
    \/ APITriggerAllWithin(MaxBurst)
    \/ CoordReceive
    \/ \E i \in Workers : WorkerStarted(i)
    \/ \E i \in Workers : WorkerReceive(i)
    \/ \E i \in Workers : EngineStep(i)
    \/ \E i \in Workers : CtxExpire(i)
    \/ \E i \in Workers : PerformSyncReturn(i)
    \/ \E i \in Workers : WorkerStopping(i)
    \/ \E i \in Workers : WorkerStopped(i)
    \/ MainStopFuture
    \/ CoordStopping
    \/ CoordStopped
    \/ FutureTimeout

\* Requests for all tables arriving in a row, before and during runs.
ManualSpec == ManualInit /\ [][ManualNext]_vars

\* One table for which each of refresh_rate, proto_actor_trigger and
\* webapi_trigger is unset or set, to zero, a negative number, a number of
\* more than 32 bits, false or true.
PolicyTables ==
    {[TC(T1, auto, api) EXCEPT !.RefreshRate = r] :
        r \in OptInt, auto \in OptBool, api \in OptBool}

\* Defaults with each trigger on or off and a refresh_rate of 360 or 0.
PolicyDefaults ==
    {[DC(auto, api, TRUE) EXCEPT !.RefreshRate = Int64(r)] :
        auto \in BOOLEAN, api \in BOOLEAN, r \in {0, 360}}

PolicyInit ==
    /\ \E tc \in PolicyTables, d \in PolicyDefaults :
        ActorInitWith([tables |-> <<tc>>, defaults |-> d])
    /\ EngineIdle
    /\ MapperIdle

PolicyNext ==
    \/ CoordStarted
    \/ \E name \in {T1, Unknown} : APITriggerSync(name)
    \/ CoordReceive
    \/ \E i \in Workers : WorkerStarted(i)
    \/ \E i \in Workers : WorkerReceive(i)
    \/ \E i \in Workers : EngineStep(i)
    \/ \E i \in Workers : PerformSyncReturn(i)
    \/ \E i \in Workers : TimerFire(i)

\* The service running over every such configuration, with no shutdown and
\* no run that exceeds its timeout.
PolicySpec == PolicyInit /\ [][PolicyNext]_vars

\* A call of the mapper for a column descriptor.
MapperInit ==
    /\ ActorInitWith(CHOOSE s \in Setups : TRUE)
    /\ EngineIdle
    /\ col \in ColumnInfos
    /\ pgType = NoType

\* mapMSSQLToPostgreSQL(col) returns.
MapColumn ==
    /\ col # NoColumn
    /\ pgType' = mapMSSQLToPostgreSQL(col)
    /\ UNCHANGED <<actorVars, col, engineVars>>

\* The mapper is called for a descriptor that differs from col only in the
\* column's name and nullability.
MapOtherColumn ==
    /\ col # NoColumn
    /\ pgType # NoType
    /\ \E n \in {"A", "B"}, nullable \in BOOLEAN :
        /\ col' = [col EXCEPT !.Name = n, !.Nullable = nullable]
        /\ pgType' = mapMSSQLToPostgreSQL(col')
    /\ UNCHANGED <<actorVars, engineVars>>

MapperNext ==
    \/ MapColumn
    \/ MapOtherColumn

\* The type mapper on its own, from every descriptor explored.
MapperSpec == MapperInit /\ [][MapperNext]_vars

\* ================================================================ claims
\* Armed timers of worker i, stored or not.
ArmedCount(i) == (IF nextSchedule[i] = "armed" THEN 1 ELSE 0) + orphanTimers[i]

\* C1: for every worker at most one execution of performSync is in progress
\* at any instant, so at most one run is inside the engine's load step; a
\* request that arrives during a run waits in the mailbox until it returned.
C1_SerialRuns ==
    \A i \in Workers :
        /\ inFlight[i] <= 1
        /\ pc[i] # "idle" => inFlight[i] = 1

\* A manual trigger waits in the mailbox of a worker that is inside the load
\* step of a run.
C1_Witness ==
    \E i \in Workers :
        /\ pc[i] = "load"
        /\ \E k \in DOMAIN mailbox[i] : mailbox[i][k].type = "SyncTable"

\* C2: the target table is never partially replaced: at every moment of a
\* run it holds its pre-run rows, or, once the load has committed, exactly
\* the fetched rows; a run with a non-empty fetch that ends with an error
\* (truncate, prepare, a row insert or commit failed) leaves the pre-run
\* rows, and one that ends without error leaves exactly the fetched rows.
C2_AllOrNothing ==
    /\ target = pre \/ (tx = "committed" /\ target = data)
    /\ (epc = "done" /\ Len(data) > 0) =>
            IF err = "none" THEN target = data ELSE target = pre

\* The insert of the second of two fetched rows failed and the transaction
\* was rolled back over a target that held an earlier row.
C2_Witness ==
    /\ epc = "done"
    /\ err = "failed to sync to target"
    /\ tx = "rolledback"
    /\ Len(data) = 2
    /\ nextRow = 2
    /\ pre = <<OldRow>>

\* Statements of the load step.
LoadStatements == {"BEGIN", "TRUNCATE", "INSERT", "COMMIT"}

\* C3: when the fetch returned zero rows the load step opens no transaction
\* and issues neither TRUNCATE nor INSERT; the target keeps its pre-run rows
\* and the run ends without error.
C3_EmptyFetchKeepsTarget ==
    [][(epc = "load" /\ Len(data) = 0) =>
        /\ target = pre
        /\ epc' = "done"
        /\ err' = "none"
        /\ tx' = "none"
        /\ target' = pre
        /\ \A k \in DOMAIN issued' : issued'[k] \notin LoadStatements]_vars

\* A run over a non-empty source table whose filter matched no row has
\* ended without error, and the target still holds its earlier row.
C3_Witness ==
    /\ epc = "done"
    /\ err = "none"
    /\ sourceRows # <<>>
    /\ data = <<>>
    /\ columns # <<>>
    /\ target = <<OldRow>>

\* C4: every worker has at most one armed timer in every reachable state;
\* scheduleNextSync leaves only the timer it arms.
C4_OneArmedTimer == \A i \in Workers : ArmedCount(i) <= 1

\* A worker has armed its second timer, after the first one fired.
C4_Witness ==
    \E i \in Workers : nextSchedule[i] = "armed" /\ runsCompleted[i] >= 2

\* C5: a stop requested while a run is in flight cancels that run's context
\* before the run returns on its own: the engine step that makes SyncTable
\* return while the stop request is pending finds the context cancelled.
C5_StopCancelsRun ==
    [][\A i \in Workers :
        (stopReq[i] /\ pc[i] \in EnginePhases /\ pc'[i] = "report")
            => ctxState[i] = "cancelled"]_vars

\* C6: a worker handles its stop without waiting for the engine: while a
\* stop request is pending and the engine is inside one of its steps, the
\* Stopping handler can run.
C6_StopNotBlocked ==
    \A i \in Workers :
        (stopReq[i] /\ wState[i] = "alive" /\ pc[i] \in EnginePhases)
            => ENABLED WorkerStopping(i)

\* C7: a run whose context expired or was cancelled while the engine was
\* inside one of its steps ends as a failed outcome.
C7_ExpiredRunFails ==
    \A i \in Workers :
        (pc[i] = "report" /\ ctxState[i] \in {"expired", "cancelled"})
            => runErr[i] = "error"

\* C8: when shutdown reports completion every worker has reached Stopped
\* and no worker timer is armed.
C8_ShutdownComplete ==
    mainState = "exited" =>
        \A i \in Workers : wState[i] \in {"none", "stopped"} /\ ArmedCount(i) = 0

\* C9: every completed run sends exactly one outcome to the coordinator,
\* with the worker's target table and a success flag that is true exactly
\* when the engine returned no error; a worker's outcomes and completed runs
\* are equal in number, and nothing else sends an outcome.
C9_OutcomePerRun ==
    [][\A i \in Workers :
        /\ outcomesSent'[i] = runsCompleted'[i]
        /\ runsCompleted'[i] # runsCompleted[i] =>
            /\ runsCompleted'[i] = runsCompleted[i] + 1
            /\ coordMailbox' = Append(coordMailbox,
                    [type |-> "SyncResult",
                     TableName |-> config[i].TargetTable,
                     Success |-> (runErr[i] = "none")])
        /\ runsCompleted' = runsCompleted =>
            ~ \E k \in DOMAIN coordMailbox' :
                /\ coordMailbox'[k].type = "SyncResult"
                /\ k > Len(coordMailbox)]_vars

\* The coordinator's mailbox holds the outcome of a failed run and the
\* outcome of a successful one.
C9_Witness ==
    /\ \E k \in DOMAIN coordMailbox :
        coordMailbox[k].type = "SyncResult" /\ ~coordMailbox[k].Success
    /\ \E k \in DOMAIN coordMailbox :
        coordMailbox[k].type = "SyncResult" /\ coordMailbox[k].Success

CoordinatorHandles(type) ==
    /\ coordMailbox # <<>>
    /\ coordMailbox' = Tail(coordMailbox)
    /\ Head(coordMailbox).type = type

\* The messages that make a worker run.
SyncRequests == {"Schedule", "SyncTable"}

\* C11: there is no automatic retry: the coordinator's handler for an
\* outcome enqueues nothing on any worker, a worker that completes a run
\* enqueues nothing on itself, and every run a worker starts takes exactly
\* one scheduled-fire or manual-trigger message from its mailbox.
C11_NoRetry ==
    [][/\ CoordinatorHandles("SyncResult") => mailbox' = mailbox
       /\ \A i \in Workers :
            /\ runsCompleted'[i] # runsCompleted[i] => mailbox'[i] = mailbox[i]
            /\ inFlight'[i] > inFlight[i] =>
                /\ inFlight'[i] = inFlight[i] + 1
                /\ mailbox[i] # <<>>
                /\ Head(mailbox[i]).type \in SyncRequests
                /\ mailbox'[i] = Tail(mailbox[i])]_vars

\* The coordinator has taken the outcome of a worker's only run, a failed
\* one, and the worker is idle with an empty mailbox.
C11_Witness ==
    \E i \in Workers :
        /\ runsCompleted[i] = 1
        /\ outcomesSent[i] = 1
        /\ runErr[i] = "error"
        /\ pc[i] = "idle"
        /\ mailbox[i] = <<>>
        /\ coordMailbox = <<>>
        /\ coordState = "alive"

\* C12: the coordinator's handler for a trigger naming a target without a
\* registered worker enqueues nothing on any worker, starts no run, emits no
\* outcome, logs exactly one lookup failure, changes nothing the caller was
\* answered, and leaves the coordinator running.
C12_UnknownTrigger ==
    [][(CoordinatorHandles("TriggerSync")
            /\ syncActors[Head(coordMailbox).TableName] = 0) =>
        /\ mailbox' = mailbox
        /\ UNCHANGED workerVars
        /\ notFoundLog' = notFoundLog + 1
        /\ response' = response
        /\ coordState' = coordState
        /\ coordState \in {"alive", "stopping"}]_vars

\* A trigger for a configured table whose worker could not be spawned was
\* answered with 200 and dropped by the coordinator with one warning; no
\* worker has anything queued or has run.
C12_Witness ==
    /\ notFoundLog = 1
    /\ response = "StatusOK"
    /\ coordMailbox = <<>>
    /\ coordState = "alive"
    /\ \A i \in Workers : mailbox[i] = <<>> /\ runsCompleted[i] = 0 /\ inFlight[i] = 0

C14_ManualKeepsTimer ==
    [][\A i \in Workers :
        /\ (handling[i] = "none" /\ handling'[i] = "SyncTable") =>
            /\ inFlight'[i] = inFlight[i] + 1
            /\ nextSchedule'[i] = nextSchedule[i]
            /\ orphanTimers'[i] = orphanTimers[i]
        /\ (handling[i] = "SyncTable" /\ handling'[i] = "none") =>
            /\ runsCompleted'[i] = runsCompleted[i] + 1
            /\ nextSchedule'[i] = nextSchedule[i]
            /\ orphanTimers'[i] = orphanTimers[i]]_vars

\* A manual run of a worker with the auto trigger has returned from the
\* engine while the timer of the preceding scheduled run has fired.
C14_Witness ==
    \E i \in Workers :
        /\ GetProtoActorTrigger(config[i], defaults)
        /\ handling[i] = "SyncTable"
        /\ pc[i] = "report"
        /\ nextSchedule[i] = "fired"
        /\ runsCompleted[i] = 1

\* C15: a trigger request is answered 200 exactly when its message was sent
\* to the coordinator, in the step that sends it and without any worker
\* having moved; no later step (a run starting, succeeding, failing or never
\* happening) changes the answer.
C15_AckOnSubmit ==
    [][/\ apiCalls' # apiCalls =>
            /\ (response' = "StatusOK") <=> (coordMailbox' # coordMailbox)
            /\ coordMailbox' # coordMailbox =>
                /\ Len(coordMailbox') = Len(coordMailbox) + 1
                /\ coordMailbox'[Len(coordMailbox')].type \in {"TriggerSync", "TriggerAll"}
            /\ UNCHANGED workerVars
       /\ apiCalls' = apiCalls => response' = response]_vars

\* The request was answered 200 and the manual run it led to has failed.
C15_Witness ==
    \E i \in Workers :
        /\ ~GetProtoActorTrigger(config[i], defaults)
        /\ response = "StatusOK"
        /\ runsCompleted[i] = 1
        /\ runErr[i] = "error"

\* C16: once the coordinator has started its workers, the registry holds a
\* worker for the target of every table entry, that worker belongs to the
\* first entry with that target, and an entry has no worker only when an
\* earlier entry has the same target.
C16_RegistryComplete ==
    coordState # "spawned" =>
        \A k \in Workers :
            LET t == config[k].TargetTable IN
            /\ syncActors[t] = FindTableConfig(t)
            /\ wState[k] = "none" =>
                \E j \in Workers : j < k /\ config[j].TargetTable = t

\* The resolved auto trigger of worker i.
AutoTrigger(i) == GetProtoActorTrigger(config[i], defaults)

\* C17: a worker with the auto trigger enabled sends itself the first
\* scheduled-fire message when it starts; a worker with it disabled never
\* has a timer, never receives or handles a scheduled-fire message, and so
\* runs only for manual triggers.
C17_AutoTriggerGate ==
    [][\A i \in Workers :
        /\ (AutoTrigger(i) /\ wState[i] = "spawned" /\ wState'[i] = "alive") =>
            mailbox'[i] = Append(mailbox[i], ScheduleSyncMessage)
        /\ ~AutoTrigger(i) =>
            /\ nextSchedule'[i] = "nil"
            /\ orphanTimers'[i] = 0
            /\ handling'[i] # "Schedule"
            /\ \A k \in DOMAIN mailbox'[i] : mailbox'[i][k].type # "Schedule"]_vars

\* A worker without the auto trigger has completed a manual run and has no
\* timer, while a worker with it has armed its timer after a scheduled run.
C17_Witness ==
    /\ \E i \in Workers :
        ~AutoTrigger(i) /\ runsCompleted[i] = 1 /\ nextSchedule[i] = "nil"
    /\ \E j \in Workers :
        AutoTrigger(j) /\ runsCompleted[j] = 1 /\ nextSchedule[j] = "armed"

\* C18: the worker of a table whose resolved manual-trigger flag is disabled
\* never has a manual-sync message in its mailbox and never handles one.
C18_ApiTriggerGate ==
    \A i \in Workers :
        ~GetWebAPITrigger(config[i], defaults) =>
            /\ handling[i] # "SyncTable"
            /\ \A k \in DOMAIN mailbox[i] : mailbox[i][k].type # "SyncTable"

\* C19: the status is the same before and after every step, and has one
\* entry per configured table, in configuration order, with the table's
\* source, target, resolved refresh interval and resolved trigger flags and
\* a last-sync field that is never set.
C19_StatusFromConfig ==
    [][/\ GetStatus' = GetStatus
       /\ DOMAIN GetStatus' = 1 .. Len(config)
       /\ \A k \in 1 .. Len(config) :
            GetStatus'[k] =
                [SourceTable |-> config[k].SourceTable,
                 TargetTable |-> config[k].TargetTable,
                 RefreshRate |-> IF config[k].RefreshRate = <<>>
                                 THEN defaults.RefreshRate
                                 ELSE config[k].RefreshRate[1],
                 ProtoActorEnabled |-> IF config[k].ProtoActorTrigger = "nil"
                                       THEN defaults.ProtoActorTrigger
                                       ELSE config[k].ProtoActorTrigger = "true",
                 WebAPIEnabled |-> IF config[k].WebAPITrigger = "nil"
                                   THEN defaults.WebAPITrigger
                                   ELSE config[k].WebAPITrigger = "true",
                 LastSync |-> "zero"]]_vars

\* After a failed run and the stop of its worker the status still shows the
\* configured entries: the first with the default interval, the second with
\* its own interval of zero, neither with a last sync.
C19_Witness ==
    /\ \E i \in Workers :
        runsCompleted[i] >= 1 /\ runErr[i] = "error" /\ wState[i] = "stopped"
    /\ Len(GetStatus) = 2
    /\ GetStatus[1].RefreshRate = Int64(360)
    /\ GetStatus[2].RefreshRate = Int64(0)
    /\ \A k \in DOMAIN GetStatus : GetStatus[k].LastSync = "zero"

MappingTable ==
    {"int", "bigint", "smallint", "tinyint", "bit", "decimal", "numeric", "money",
     "smallmoney", "float", "real", "date", "datetime", "datetime2",
     "smalldatetime", "time", "char", "varchar", "nchar", "nvarchar", "text",
     "ntext", "uniqueidentifier", "varbinary", "binary", "image", "xml"}

\* The target type names the mapper can return.
TargetTypes ==
    {"INTEGER", "BIGINT", "SMALLINT", "BOOLEAN", "NUMERIC", "DOUBLE PRECISION",
     "REAL", "DATE", "TIMESTAMP", "TIME", "CHAR", "VARCHAR", "TEXT", "UUID",
     "BYTEA", "XML"}

\* C22: the mapper returns a target type for every descriptor; descriptors
\* that agree on the lower-cased type name, length, precision and scale get
\* the same type, whatever their name, nullability or the letter case of the
\* type name; a type name outside the mapping table gives TEXT.
C22_MapperTotal ==
    pgType # NoType =>
        /\ pgType.base \in TargetTypes
        /\ \A d \in ColumnInfos :
            (/\ ToLower(d.DataType) = ToLower(col.DataType)
             /\ d.Length = col.Length
             /\ d.Precision = col.Precision
             /\ d.Scale = col.Scale) => mapMSSQLToPostgreSQL(d) = pgType
        /\ ToLower(col.DataType) \notin MappingTable => pgType = PGType("TEXT", <<>>)

\* The mapper returned VARCHAR(1) for a column of type "NVarChar" and length
\* 1 and was called again for the same descriptor under another name.
C22_Witness ==
    /\ col.DataType = "NVarChar"
    /\ col.Length = 1
    /\ col.Name = "B"
    /\ pgType = PGType("VARCHAR", <<1>>)

\* The source types with a length, and those with precision and scale.
LengthTypes == {"char", "nchar", "varchar", "nvarchar"}
PrecisionTypes == {"decimal", "numeric"}

\* C29: for decimal and numeric the target type carries precision and scale
\* when the precision is greater than zero, for char, nchar, varchar and
\* nvarchar it carries the length when that is greater than zero, and
\* otherwise the target type has no number in parentheses.
C29_ParametersCarried ==
    pgType # NoType =>
        /\ ToLower(col.DataType) \in PrecisionTypes =>
            pgType.args = IF col.Precision > 0
                          THEN <<col.Precision, col.Scale>> ELSE <<>>
        /\ ToLower(col.DataType) \in LengthTypes =>
            pgType.args = IF col.Length > 0 THEN <<col.Length>> ELSE <<>>

\* Position of a column in the source table.
Ordinal(c) == CHOOSE p \in DOMAIN SourceColumns : SourceColumns[p] = c

\* Source column c is named by the allow-list, letter case ignored.
AllowListed(c) == \E f \in DOMAIN job.Fields : Lower(job.Fields[f]) = Lower(c)

Split(tableName) ==
    CASE tableName = "dbo.Users" -> <<"dbo", "Users">>
      [] tableName = "public.Order" -> <<"public", "Order">>
      [] OTHER -> <<tableName>>

\* The table names configured, their segments, and the column names.
Identifiers ==
    {SourceColumns[p] : p \in DOMAIN SourceColumns}
        \cup UNION {{t} \cup {Split(t)[k] : k \in DOMAIN Split(t)} :
                        t \in SourceTables \cup TargetTables}

\* The piece at position p of a statement text stands between the quote
\* characters of the source dialect ([ ]) or of the target dialect (" ").
Quoted(text, p) ==
    /\ p > 1
    /\ p < Len(text)
    /\ \/ text[p - 1] = "[" /\ text[p + 1] = "]"
       \/ text[p - 1] = "\"" /\ text[p + 1] = "\""

\* C23: in every generated statement every table name and column name is
\* quoted, and a schema-qualified table name appears as its segments, each
\* quoted on its own.
C23_IdentifiersQuoted ==
    \A q \in DOMAIN queries : \A p \in DOMAIN queries[q] :
        queries[q][p] \in Identifiers =>
            /\ Len(Split(queries[q][p])) = 1
            /\ Quoted(queries[q], p)

\* The statement text is a CREATE TABLE.
IsCreate(text) == text[1] = "CREATE TABLE "

\* The kinds of statement in kinds after the first n.
IssuedAfter(kinds, n) == {kinds[k] : k \in (n + 1) .. Len(kinds)}

\* C27: a step issues CREATE TABLE only under the auto-creation policy and
\* after an existence check that found the target absent; a run over an
\* existing target issues no CREATE TABLE and leaves the target's columns as
\* they were, also when the resolved columns differ from them; with
\* auto-creation disabled neither the existence check nor CREATE is issued.
C27_CreateOnlyWhenAbsent ==
    [][/\ "CREATE" \in IssuedAfter(issued', Len(issued)) =>
            /\ job.CreateTargetTable
            /\ ~targetExists
            /\ "EXISTS" \in IssuedAfter(issued', Len(issued))
            /\ Len(queries') = Len(queries) + 1
            /\ IsCreate(queries'[Len(queries')])
       /\ (Len(queries') > Len(queries) /\ IsCreate(queries'[Len(queries')])) =>
            "CREATE" \in IssuedAfter(issued', Len(issued))
       /\ preExists =>
            /\ "CREATE" \notin IssuedAfter(issued', 0)
            /\ \A q \in DOMAIN queries' : ~IsCreate(queries'[q])
            /\ targetColumns' = SourceColumns
       /\ ~job.CreateTargetTable =>
            /\ IssuedAfter(issued', 0) \cap {"EXISTS", "CREATE"} = {}
            /\ \A q \in DOMAIN queries' : ~IsCreate(queries'[q])]_vars

\* Under the auto-creation policy the existence check found a target whose
\* columns differ from the resolved ones; the run went on to the load with
\* the existence check as the only statement issued.
C27_Witness ==
    /\ job.CreateTargetTable
    /\ preExists
    /\ columns = <<"A">>
    /\ targetColumns = <<"A", "B">>
    /\ epc = "load"
    /\ issued = <<"EXISTS">>

\* C26: a run that failed in the fetch or in the load has left the target
\* database as it was when the run began: the same relations exist and the
\* target holds the same rows.
C26_FailureLeavesTargetAsBefore ==
    (epc = "done" /\ err \in {"failed to fetch source data", "failed to sync to target"}) =>
        /\ targetExists = preExists
        /\ target = pre

\* The step of SyncTable a position belongs to: 1 introspection, 2 target
\* creation, 3 fetch, 4 load, 5 returned.
StepOf(p) ==
    CASE p = "introspect" -> 1
      [] p = "create" -> 2
      [] p = "fetch" -> 3
      [] p \in {"load", "truncate", "prepare", "insert"} -> 4
      [] p = "done" -> 5

\* The error SyncTable returns when the step fails.
ErrorOf(step) ==
    CASE step = 1 -> "failed to get source columns"
      [] step = 2 -> "failed to create target table"
      [] step = 3 -> "failed to fetch source data"
      [] step = 4 -> "failed to sync to target"

\* The statement text is part of the load.
IsLoad(text) == text[1] \in {"TRUNCATE TABLE ", "INSERT INTO "}

\* C25: the run goes through introspection, target creation (under the
\* policy only), fetch and load in that order; a step that fails ends the run
\* with that step's error, nothing is executed after it, and a run that
\* failed before the load has issued no statement of the load.
C25_StepsInOrder ==
    [][/\ epc' # epc =>
            \/ epc' = "done"
            \/ StepOf(epc) = 4 /\ StepOf(epc') = 4
            \/ StepOf(epc') = StepOf(epc) + 1 /\ (epc' = "create" => job.CreateTargetTable)
            \/ epc = "introspect" /\ epc' = "fetch" /\ ~job.CreateTargetTable
       /\ (err = "none" /\ err' # "none") =>
            /\ epc' = "done"
            /\ err' = ErrorOf(StepOf(epc))
       /\ err # "none" => (epc = "done" /\ UNCHANGED vars)
       /\ epc = "done" => UNCHANGED vars
       /\ err' \in {ErrorOf(1), ErrorOf(2), ErrorOf(3)} =>
            /\ \A k \in DOMAIN issued' : issued'[k] \notin LoadStatements
            /\ \A q \in DOMAIN queries' : ~IsLoad(queries'[q])
            /\ tx' = "none"
            /\ target' = target
       /\ err' = ErrorOf(1) => (issued' = <<>> /\ queries' = <<>>)
       /\ err' = ErrorOf(2) => (data' = <<>> /\ \A q \in DOMAIN queries' : IsCreate(queries'[q]))]_vars

\* The target was created, the fetch failed and the run returned its error
\* with nothing issued after the CREATE TABLE and the SELECT.
C25_Witness ==
    /\ epc = "done"
    /\ err = "failed to fetch source data"
    /\ issued = <<"EXISTS", "CREATE">>
    /\ Len(queries) = 2
    /\ tx = "none"

\* The column names in a statement text, in the order they appear.
ColumnNamesIn(text) == SelectSeq2(text, {SourceColumns[p] : p \in DOMAIN SourceColumns})

\* The end of the definition of column c in a CREATE TABLE text is NOT NULL.
MarkedNotNull(text, c) ==
    LET p == CHOOSE p \in DOMAIN text : text[p] = c
        ends == {q \in (p + 1) .. Len(text) : text[q] \in {"", " NOT NULL"}}
        q == CHOOSE q \in ends : \A r \in ends : q <= r
    IN  text[q] = " NOT NULL"

\* The number of placeholders in a statement text.
RECURSIVE Placeholders(_)
Placeholders(text) ==
    IF text = <<>> THEN 0
    ELSE (IF Head(text) = "$" THEN 1 ELSE 0) + Placeholders(Tail(text))

\* C28: after introspection the resolved column list does not change; the
\* CREATE TABLE definitions, the SELECT projection and the INSERT column list
\* name exactly the resolved columns in their order, CREATE TABLE marks a
\* column NOT NULL exactly when the source column is not nullable, INSERT
\* has one placeholder per column, and every row inserted holds in its i-th
\* column the fetched row's value of the i-th resolved column.
C28_ColumnOrderKept ==
    [][/\ epc # "introspect" => columns' = columns
       /\ \A q \in DOMAIN queries' :
            /\ queries'[q][1] # "TRUNCATE TABLE " =>
                    ColumnNamesIn(queries'[q]) = columns'
            /\ IsCreate(queries'[q]) =>
                    \A k \in DOMAIN columns' :
                        MarkedNotNull(queries'[q], columns'[k])
                            = ~ColumnInfoOf(columns'[k]).Nullable
            /\ queries'[q][1] = "INSERT INTO " =>
                    Placeholders(queries'[q]) = Len(columns')
       /\ epc' = "insert" =>
            /\ Len(txRows') = nextRow' - 1
            /\ \A k \in DOMAIN txRows' : \A i \in DOMAIN columns' :
                    txRows'[k][columns'[i]] = data'[k][columns'[i]]]_vars

\* A run created the target, fetched two rows whose first row has different
\* values in its two columns, and committed them.
C28_Witness ==
    /\ epc = "done"
    /\ err = "none"
    /\ columns = <<"A", "B">>
    /\ Len(queries) = 4
    /\ Len(data) = 2
    /\ data[1]["A"] # data[1]["B"]
    /\ target = data

\* s is an initial segment of t.
IsPrefix(s, t) == Len(s) <= Len(t) /\ \A k \in DOMAIN s : s[k] = t[k]

\* A step of worker j on its own mailbox, run or timer.
WorkerStep(j) ==
    \/ WorkerStarted(j)
    \/ WorkerReceive(j)
    \/ EngineStep(j)
    \/ CtxExpire(j)
    \/ PerformSyncReturn(j)
    \/ TimerFire(j)

\* The position of worker i in its run is the same before and after the step.
RunUntouched(i) ==
    /\ pc'[i] = pc[i]
    /\ handling'[i] = handling[i]
    /\ inFlight'[i] = inFlight[i]
    /\ ctxState'[i] = ctxState[i]
    /\ runErr'[i] = runErr[i]
    /\ runsCompleted'[i] = runsCompleted[i]

\* C24: workers run independently of each other. An idle worker with a
\* message can start its run and a worker inside a run can take its next
\* step whatever the other workers are doing; a step of another worker
\* leaves this worker's mailbox and run as they are, and a step of the
\* coordinator leaves its run as it is and only appends to its mailbox.
C24_WorkersIndependent ==
    [][\A i \in Workers :
        /\ (/\ ProcessRunning
            /\ RunsStarted < MaxRuns
            /\ wState[i] = "alive"
            /\ handling[i] = "none"
            /\ ~stopReq[i]
            /\ mailbox[i] # <<>>) => ENABLED WorkerReceive(i)
        /\ (ProcessRunning /\ pc[i] \in EnginePhases) => ENABLED EngineStep(i)
        /\ \A j \in Workers \ {i} :
            WorkerStep(j) => (RunUntouched(i) /\ mailbox'[i] = mailbox[i])
        /\ (CoordStarted \/ CoordReceive) =>
            (RunUntouched(i) /\ IsPrefix(mailbox[i], mailbox'[i]))]_vars

\* Every configured table's worker is inside a run at the same moment.
C24_Witness ==
    /\ Cardinality(Workers) = 2
    /\ \A i \in Workers : pc[i] \in EnginePhases /\ inFlight[i] = 1

\* Requests for all tables the coordinator has not handled yet.
PendingTriggerAll == Len(SelectSeq(coordMailbox, LAMBDA m : m.type = "TriggerAll"))

\* Runs worker i has started.
Started(i) == runsCompleted[i] + inFlight[i]

\* Every manual-trigger message delivered to the registered worker i, as
\* long as it is not stopped, is queued, in a run, or has had its run: none
\* is lost, none counts twice.
Accounted(i) ==
    (syncActors[config[i].TargetTable] = i /\ wState[i] # "stopped") =>
        Len(mailbox[i]) + Started(i) = apiCalls - PendingTriggerAll

\* C30: a worker has at most one run at a time; a run starts only by taking
\* the message at the head of the mailbox and leaves the rest queued in
\* order; every other step only appends to the mailbox, also during a run;
\* an idle worker that is not stopped can always take its next message; so
\* the messages delivered equal those queued plus the runs started.
C30_ManualRunsInOrder ==
    [][\A i \in Workers :
        /\ inFlight'[i] <= 1
        /\ Accounted(i)'
        /\ IF Started(i)' # Started(i)
           THEN /\ handling[i] = "none"
                /\ mailbox[i] # <<>>
                /\ handling'[i] = Head(mailbox[i]).type
                /\ mailbox'[i] = Tail(mailbox[i])
                /\ Started(i)' = Started(i) + 1
           ELSE IsPrefix(mailbox[i], mailbox'[i])
        /\ (/\ ProcessRunning
            /\ RunsStarted < MaxRuns
            /\ wState[i] = "alive"
            /\ ~stopReq[i]
            /\ handling[i] = "none"
            /\ mailbox[i] # <<>>) => ENABLED WorkerReceive(i)]_vars

\* Two requests reached the worker, the second while the first run was in
\* progress or queued behind it, and the worker has completed two runs.
C30_Witness ==
    /\ apiCalls = 2
    /\ \E i \in Workers :
        /\ runsCompleted[i] = 2
        /\ mailbox[i] = <<>>
        /\ wState[i] = "alive"
        /\ ~stopReq[i]

\* Worker i has handled its stop.
HandledStop(i) == wState[i] \in {"stopping", "stopped"}

\* C31: a worker that has handled its stop is terminal: it has no armed
\* timer, it stays stopped, it starts no run and completes none, and the
\* messages queued for it, and those sent to it afterwards, stay unhandled.
C31_StoppedIsTerminal ==
    [][\A i \in Workers : HandledStop(i) =>
        /\ ArmedCount(i) = 0
        /\ ArmedCount(i)' = 0
        /\ HandledStop(i)'
        /\ wState[i] = "stopped" => wState'[i] = "stopped"
        /\ handling[i] = "none" /\ handling'[i] = "none"
        /\ inFlight[i] = 0 /\ inFlight'[i] = 0
        /\ pc'[i] = "idle"
        /\ runsCompleted'[i] = runsCompleted[i]
        /\ IsPrefix(mailbox[i], mailbox'[i])
        /\ ~ENABLED WorkerReceive(i)
        /\ ~ENABLED TimerFire(i)]_vars

\* A worker stopped with a scheduled-fire message from its fired timer and
\* a manual trigger still in its queue.
C31_Witness ==
    \E i \in Workers :
        /\ wState[i] = "stopped"
        /\ nextSchedule[i] = "nil"
        /\ \E k \in DOMAIN mailbox[i] : mailbox[i][k].type = "Schedule"
        /\ \E k \in DOMAIN mailbox[i] : mailbox[i][k].type = "SyncTable"

\* The stored timer of worker i fires in this step.
Fires(i) == TimerFire(i) \/ (nextSchedule[i] = "armed" /\ nextSchedule'[i] = "fired")

\* C32: a firing timer only appends a scheduled-fire message to its worker's
\* mailbox and leaves the worker's run as it is; a scheduled run starts only
\* when the worker, with no handler in progress, takes that message from the
\* head of its mailbox; a worker never has two runs in progress.
C32_TimerOnlyEnqueues ==
    [][\A i \in Workers :
        /\ Fires(i) =>
            /\ mailbox'[i] = Append(mailbox[i], ScheduleSyncMessage)
            /\ RunUntouched(i)
        /\ (handling[i] # "Schedule" /\ handling'[i] = "Schedule") =>
            /\ handling[i] = "none"
            /\ inFlight[i] = 0
            /\ mailbox[i] # <<>>
            /\ Head(mailbox[i]) = ScheduleSyncMessage
            /\ mailbox'[i] = Tail(mailbox[i])
        /\ inFlight[i] <= 1 /\ inFlight'[i] <= 1]_vars

\* The timer fired while a manual run was inside the engine: the
\* scheduled-fire message is queued and the manual run is the only run.
C32_Witness ==
    \E i \in Workers :
        /\ handling[i] = "SyncTable"
        /\ pc[i] \in EnginePhases
        /\ inFlight[i] = 1
        /\ nextSchedule[i] = "fired"
        /\ mailbox[i] = <<ScheduleSyncMessage>>

\* Scheduled-fire messages in the mailbox of worker i.
QueuedFires(i) == Len(SelectSeq(mailbox[i], LAMBDA m : m.type = "Schedule"))

\* Armed timers of worker i plus its scheduled-fire messages, queued or
\* being handled.
ScheduleTokens(i) ==
    ArmedCount(i) + QueuedFires(i) + (IF handling[i] = "Schedule" THEN 1 ELSE 0)

\* C34: for every worker the armed timers and the scheduled-fire messages
\* queued or being handled number at most one: exactly one for a started,
\* not stopped worker with the auto trigger, none for a worker without it.
C34_OneScheduleToken ==
    \A i \in Workers :
        /\ ScheduleTokens(i) <= 1
        /\ (AutoTrigger(i) /\ wState[i] = "alive") => ScheduleTokens(i) = 1
        /\ ~AutoTrigger(i) => ScheduleTokens(i) = 0

\* After a scheduled run armed the timer, a manual run of the same worker
\* is in progress and the timer is still the only token.
C34_Witness ==
    \E i \in Workers :
        /\ AutoTrigger(i)
        /\ runsCompleted[i] = 1
        /\ handling[i] = "SyncTable"
        /\ nextSchedule[i] = "armed"
        /\ QueuedFires(i) = 0

\* C35: the Started handler of an auto-trigger worker sends the worker a
\* scheduled-fire message and arms no timer, so a run can start without
\* waiting for a timer; a timer is armed only by the step that completes a
\* scheduled run, the first one included, and no timer exists before the
\* worker has completed a run.
C35_FirstRunThenTimer ==
    [][\A i \in Workers :
        /\ (AutoTrigger(i) /\ wState[i] = "spawned" /\ wState'[i] = "alive") =>
            /\ mailbox'[i] = Append(mailbox[i], ScheduleSyncMessage)
            /\ nextSchedule'[i] = "nil"
        /\ (/\ AutoTrigger(i)
            /\ wState[i] = "alive"
            /\ runsCompleted[i] = 0
            /\ handling[i] = "none"
            /\ ~stopReq[i]
            /\ ProcessRunning
            /\ RunsStarted < MaxRuns) => ENABLED WorkerReceive(i)
        /\ (nextSchedule'[i] = "armed" /\ nextSchedule[i] # "armed") =>
            /\ handling[i] = "Schedule"
            /\ pc[i] = "report"
            /\ handling'[i] = "none"
            /\ runsCompleted'[i] = runsCompleted[i] + 1
        /\ runsCompleted'[i] = 0 => nextSchedule'[i] = "nil"
        /\ handling'[i] = "Schedule" => nextSchedule'[i] # "armed"]_vars

\* With no request made to the API, a worker has completed its first and
\* its second scheduled run and armed the timer after the second.
C35_Witness ==
    \E i \in Workers :
        /\ apiCalls = 0
        /\ runsCompleted[i] = 2
        /\ handling[i] = "none"
        /\ nextSchedule[i] = "armed"

\* A handler of worker i begins in this step: Started, a sync request, or
\* Stopping.
HandlerBegins(i) ==
    \/ wState[i] = "spawned" /\ wState'[i] = "alive"
    \/ handling[i] = "none" /\ handling'[i] # "none"
    \/ wState[i] = "alive" /\ wState'[i] = "stopping"

\* C36: the stored cancel function is set only while one performSync call
\* is in progress, and it is nil whenever a handler begins, the Stopping
\* handler included.
C36_CancelOnlyDuringRun ==
    [][\A i \in Workers :
        /\ cancelFunc[i] =>
            /\ handling[i] \in SyncRequests
            /\ inFlight[i] = 1
            /\ pc[i] \in EnginePhases \cup {"report"}
        /\ cancelFunc'[i] =>
            /\ handling'[i] \in SyncRequests
            /\ inFlight'[i] = 1
        /\ (inFlight[i] = 1 /\ inFlight'[i] = 0) => ~cancelFunc'[i]
        /\ HandlerBegins(i) => ~cancelFunc[i]]_vars

\* The stop was requested during a run; the Stopping handler began after
\* the run had returned, with nothing to cancel.
C36_Witness ==
    \E i \in Workers :
        /\ wState[i] = "stopping"
        /\ runsCompleted[i] = 1
        /\ mailbox[i] # <<>>
        /\ ~cancelFunc[i]
        /\ ctxState[i] = "none"

\* The coordinator handles a message of its mailbox in this step.
CoordinatorHandlesMessage == CoordReceive \/ Len(coordMailbox') < Len(coordMailbox)

\* C38: the registry changes only in the step in which the coordinator
\* handles Started; handling a trigger for one table, a trigger for all
\* tables or an outcome leaves the registry and the set of workers as they
\* are; a worker comes into being only in the Started step, and between
\* startup and the request to shut down no worker is added, replaced or
\* removed.
C38_RegistryWrittenOnStart ==
    [][/\ syncActors' # syncActors => (coordState = "spawned" /\ coordState' = "alive")
       /\ CoordinatorHandlesMessage =>
            /\ syncActors' = syncActors
            /\ wState' = wState
            /\ parent' = parent
       /\ \A i \in Workers :
            /\ (wState[i] = "none" /\ wState'[i] # "none") => coordState = "spawned"
            /\ (coordState = "alive" /\ mainState = "running") =>
                /\ Registered(i)' = Registered(i)
                /\ wState'[i] \in {wState[i], "alive"}
                /\ parent'[i] = parent[i]]_vars

\* The coordinator has handled a trigger and the outcomes of two runs, one
\* of them failed; the registry is the one built on start.
C38_Witness ==
    /\ mainState = "running"
    /\ coordMailbox = <<>>
    /\ apiCalls = 1
    /\ response = "StatusOK"
    /\ \A i \in Workers : runsCompleted[i] = 1 /\ outcomesSent[i] = 1
    /\ \E i \in Workers : runErr[i] = "error"
    /\ \A i \in Workers : syncActors[config[i].TargetTable] = i

\* C37: once the coordinator has started its workers, two configured tables
\* whose target identifiers are different strings have two workers of their
\* own, each registered under its identifier, so that each can be inside a
\* run whatever the other does.
C37_WorkerPerIdentifier ==
    coordState # "spawned" =>
        \A i, j \in Workers :
            config[i].TargetTable # config[j].TargetTable =>
                /\ wState[i] # "none"
                /\ wState[j] # "none"
                /\ syncActors[config[i].TargetTable] = i
                /\ syncActors[config[j].TargetTable] = j

\* The value a table's field resolves to: what the table sets, zero and false
\* included, and the default only when the table leaves the field unset.
ResolvedRefreshRate(k) ==
    CASE config[k].RefreshRate = <<>> -> defaults.RefreshRate
      [] OTHER -> config[k].RefreshRate[1]

ResolvedAutoTrigger(k) ==
    CASE config[k].ProtoActorTrigger = "true" -> TRUE
      [] config[k].ProtoActorTrigger = "false" -> FALSE
      [] OTHER -> defaults.ProtoActorTrigger

ResolvedManualTrigger(k) ==
    CASE config[k].WebAPITrigger = "true" -> TRUE
      [] config[k].WebAPITrigger = "false" -> FALSE
      [] OTHER -> defaults.WebAPITrigger

\* C33: for each of refresh interval, auto trigger and manual trigger the
\* resolved value is the table's own when set and the default when unset,
\* and that value is the one used everywhere: a worker that starts sends
\* itself the first schedule message exactly when the resolved auto trigger
\* is on; a scheduled run that ends arms the timer, with the delay computed
\* from the resolved interval, exactly when the resolved auto trigger is on;
\* a trigger request for the configured table is accepted when the resolved
\* manual trigger is on and refused as forbidden when it is off; and the
\* status shows the three resolved values.
C33_ResolutionEverywhere ==
    [][\A i \in Workers :
        /\ (wState[i] = "spawned" /\ wState'[i] = "alive") =>
                mailbox'[i] = mailbox[i] \o
                    (IF ResolvedAutoTrigger(i) THEN <<ScheduleSyncMessage>> ELSE <<>>)
        /\ (runsCompleted'[i] = runsCompleted[i] + 1 /\ handling[i] = "Schedule") =>
                IF ResolvedAutoTrigger(i)
                THEN /\ nextSchedule'[i] = "armed"
                     /\ timerDelay'[i] = Delay(ResolvedRefreshRate(i))
                ELSE /\ nextSchedule'[i] = nextSchedule[i]
                     /\ timerDelay'[i] = timerDelay[i]
        /\ (runsCompleted'[i] = runsCompleted[i] + 1 /\ handling[i] # "Schedule") =>
                /\ nextSchedule'[i] = nextSchedule[i]
                /\ timerDelay'[i] = timerDelay[i]
        /\ APITriggerSync(config[i].TargetTable) =>
                IF ResolvedManualTrigger(i)
                THEN /\ response' = "StatusOK"
                     /\ coordMailbox' = coordMailbox \o
                            <<TriggerSyncMessage(config[i].TargetTable, config[i])>>
                ELSE /\ response' = "StatusForbidden"
                     /\ coordMailbox' = coordMailbox
        /\ GetStatus'[i].RefreshRate = ResolvedRefreshRate(i)
        /\ GetStatus'[i].ProtoActorEnabled = ResolvedAutoTrigger(i)
        /\ GetStatus'[i].WebAPIEnabled = ResolvedManualTrigger(i)]_vars

\* A table that sets refresh_rate 0 and webapi_trigger false under defaults
\* of 360 and true, and leaves the auto trigger to the default, which is on:
\* a scheduled run has ended and armed the timer with the delay of its own
\* interval, a trigger request was refused, and the status shows 0 and false.
C33_Witness ==
    /\ config[1].RefreshRate = <<Int64(0)>>
    /\ defaults.RefreshRate = Int64(360)
    /\ config[1].WebAPITrigger = "false"
    /\ defaults.WebAPITrigger
    /\ config[1].ProtoActorTrigger = "nil"
    /\ defaults.ProtoActorTrigger
    /\ runsCompleted[1] >= 1
    /\ nextSchedule[1] = "armed"
    /\ timerDelay[1] = Delay(Int64(0))
    /\ timerDelay[1] # Delay(Int64(360))
    /\ response = "StatusForbidden"
    /\ GetStatus[1].RefreshRate = Int64(0)
    /\ ~GetStatus[1].WebAPIEnabled
    /\ GetStatus[1].ProtoActorEnabled

\* x >= y of two non-negative integers of the same width, compared from
\* byte k down.
RECURSIVE GreaterEqFrom(_, _, _)
GreaterEqFrom(x, y, k) ==
    IF k = 0 THEN TRUE
    ELSE IF x[k] # y[k] THEN x[k] > y[k]
    ELSE GreaterEqFrom(x, y, k - 1)

AtLeast(x, y) == ~IsNegative(x) /\ GreaterEqFrom(x, y, Len(x))

\* A non-negative integer in twice its width, where a product of two of
\* them does not overflow.
Wide(x) == x \o [k \in DOMAIN x |-> 0]

\* The duration d is r seconds: r times the nanoseconds of one second,
\* computed without loss.
IsSeconds(d, r) == Wide(d) = Mul(Wide(r), Wide(Second))

\* C39: whenever the reschedule timer is armed, its delay is the resolved
\* refresh interval in seconds when that is positive and one second when
\* it is zero or negative, so the delay is at least one second; and the
\* status shows the resolved interval as configured, not clamped.
C39_DelayAtLeastOneSecond ==
    \A i \in Workers :
        nextSchedule[i] = "armed" =>
            /\ IF NonPositive(ResolvedRefreshRate(i))
               THEN timerDelay[i] = Second
               ELSE IsSeconds(timerDelay[i], ResolvedRefreshRate(i))
            /\ AtLeast(timerDelay[i], Second)
            /\ GetStatus[i].RefreshRate = ResolvedRefreshRate(i)

====
